---- MODULE Spec2Model ----
(***************************************************************************)
(* Annotation parsing, spreadsheet ingestion and product classification of *)
(* camda-estoque (src/app_turso.py).  Text is modelled as a sequence of    *)
(* one-character strings; the regular expressions of the module are        *)
(* translated to operators that match the way Python's backtracking        *)
(* matcher does.                                                           *)
(***************************************************************************)
EXTENDS Integers, Sequences, FiniteSets, TLC

VARIABLES nota, qtd_sistema, result, record, pc,
          sheet, outcome,
          label, category,
          attempt, responses, reply,
          db, durable, call

\* The annotation of one row, the uploaded sheet, a product or group label,
\* one call of the AGROFIT client, and the database behind the cached
\* connection
annotVars == <<nota, qtd_sistema, result, record>>

sheetVars == <<sheet, outcome>>

labelVars == <<label, category>>

clientVars == <<attempt, responses, reply>>

\* db is the database as the cached connection sees it, its open transaction
\* included; durable is the database as last committed; call is the last call
dbVars == <<db, durable, call>>

vars == <<nota, qtd_sistema, result, record, pc, sheet, outcome, label, category,
          attempt, responses, reply, db, durable, call>>

(***************************************************************************)
(* Characters and the str methods the parser uses                          *)
(***************************************************************************)
DigitChars == {"0", "1", "2", "3", "4", "5", "6", "7", "8", "9"}

LowerChars == {"a", "b", "c", "d", "e", "f", "g", "h", "i", "j", "k", "l", "m",
               "n", "o", "p", "q", "r", "s", "t", "u", "v", "w", "x", "y", "z"}

UpperChars == {"A", "B", "C", "D", "E", "F", "G", "H", "I", "J", "K", "L", "M",
               "N", "O", "P", "Q", "R", "S", "T", "U", "V", "W", "X", "Y", "Z"}

\* The accented letters of the headers, keywords and group labels
AccentLower == {"á", "í", "ó", "ç"}

AccentUpper == {"Á", "Í", "Ó", "Ç"}

SpaceChars == {" ", "\t", "\n"}

PunctChars == {".", ",", ":", "-", "+", "/"}

Chars == DigitChars \cup LowerChars \cup UpperChars \cup AccentLower \cup AccentUpper
         \cup SpaceChars \cup PunctChars

IsSpace(c) == c \in SpaceChars

IsDigit(c) == c \in DigitChars

IsWordChar(c) ==
    c \in DigitChars \cup LowerChars \cup UpperChars \cup AccentLower \cup AccentUpper \cup {"_"}

LowerOf == [c \in UpperChars |->
              CASE c = "A" -> "a" [] c = "B" -> "b" [] c = "C" -> "c" [] c = "D" -> "d"
                [] c = "E" -> "e" [] c = "F" -> "f" [] c = "G" -> "g" [] c = "H" -> "h"
                [] c = "I" -> "i" [] c = "J" -> "j" [] c = "K" -> "k" [] c = "L" -> "l"
                [] c = "M" -> "m" [] c = "N" -> "n" [] c = "O" -> "o" [] c = "P" -> "p"
                [] c = "Q" -> "q" [] c = "R" -> "r" [] c = "S" -> "s" [] c = "T" -> "t"
                [] c = "U" -> "u" [] c = "V" -> "v" [] c = "W" -> "w" [] c = "X" -> "x"
                [] c = "Y" -> "y" [] c = "Z" -> "z"]

UpperOf == [c \in LowerChars |-> CHOOSE u \in UpperChars : LowerOf[u] = c]

AccentLowerOf == [c \in AccentUpper |->
                    CASE c = "Á" -> "á" [] c = "Í" -> "í" [] c = "Ó" -> "ó" [] c = "Ç" -> "ç"]

AccentUpperOf == [c \in AccentLower |-> CHOOSE u \in AccentUpper : AccentLowerOf[u] = c]

\* str.lower()
lower(s) == [i \in 1..Len(s) |-> IF s[i] \in UpperChars THEN LowerOf[s[i]]
                                 ELSE IF s[i] \in AccentUpper THEN AccentLowerOf[s[i]]
                                 ELSE s[i]]

\* str.upper()
upper(s) == [i \in 1..Len(s) |-> IF s[i] \in LowerChars THEN UpperOf[s[i]]
                                 ELSE IF s[i] \in AccentLower THEN AccentUpperOf[s[i]]
                                 ELSE s[i]]

\* str.strip(): the text between the first and the last non-whitespace character
RECURSIVE FirstNonSpace(_, _)
FirstNonSpace(s, i) == IF i <= Len(s) /\ s[i] \in SpaceChars THEN FirstNonSpace(s, i + 1) ELSE i

RECURSIVE LastNonSpace(_, _)
LastNonSpace(s, i) == IF i >= 1 /\ s[i] \in SpaceChars THEN LastNonSpace(s, i - 1) ELSE i

strip(s) == SubSeq(s, FirstNonSpace(s, 1), LastNonSpace(s, Len(s)))

\* _RE_SPACES.sub(" ", s): every maximal run of whitespace becomes one space
RECURSIVE SpacesSubFrom(_, _)
SpacesSubFrom(s, i) ==
    IF i > Len(s) THEN <<>>
    ELSE IF IsSpace(s[i])
         THEN IF i > 1 /\ IsSpace(s[i - 1]) THEN SpacesSubFrom(s, i + 1)
              ELSE <<" ">> \o SpacesSubFrom(s, i + 1)
         ELSE <<s[i]>> \o SpacesSubFrom(s, i + 1)

_RE_SPACES_sub(s) == SpacesSubFrom(s, 1)

(***************************************************************************)
(* Pieces of the regular expressions.  Positions are 1-based; an "End"     *)
(* operator returns the position after the greedy match that starts at i.  *)
(***************************************************************************)
HasAt(s, i, w) == i + Len(w) - 1 <= Len(s) /\ SubSeq(s, i, i + Len(w) - 1) = w

SpaceAt(s, i) == i <= Len(s) /\ IsSpace(s[i])

DigitAt(s, i) == i <= Len(s) /\ IsDigit(s[i])

\* \s*
RECURSIVE SpacesEnd(_, _)
SpacesEnd(s, i) == IF SpaceAt(s, i) THEN SpacesEnd(s, i + 1) ELSE i

\* \d*
RECURSIVE DigitsEnd(_, _)
DigitsEnd(s, i) == IF DigitAt(s, i) THEN DigitsEnd(s, i + 1) ELSE i

\* \w*
RECURSIVE WordEnd(_, _)
WordEnd(s, i) == IF i <= Len(s) /\ IsWordChar(s[i]) THEN WordEnd(s, i + 1) ELSE i

\* .*  (the dot does not match a newline)
RECURSIVE DotStarEnd(_, _)
DotStarEnd(s, i) == IF i <= Len(s) /\ s[i] # "\n" THEN DotStarEnd(s, i + 1) ELSE i

\* A match object: group(1), group(2) and end(), or no match
NoMatch == [ok |-> FALSE, g1 |-> <<>>, g2 |-> <<>>, end |-> 0]

\* Variant: the amount group may be empty, \s+(\d*)\s*(.*)
NumTail_optional_amount(s, i) ==
    LET j == SpacesEnd(s, i)
        k == DigitsEnd(s, j)
        m == SpacesEnd(s, k)
    IN  IF SpaceAt(s, i)
        THEN [ok |-> TRUE, g1 |-> SubSeq(s, j, k - 1),
              g2 |-> SubSeq(s, m, DotStarEnd(s, m) - 1), end |-> DotStarEnd(s, m)]
        ELSE NoMatch

\* \s+(\d+)\s*(.*) at position i
NumTail(s, i) ==
    LET j == SpacesEnd(s, i)
        k == DigitsEnd(s, j)
        m == SpacesEnd(s, k)
    IN  IF SpaceAt(s, i) /\ k > j
        THEN [ok |-> TRUE, g1 |-> SubSeq(s, j, k - 1),
              g2 |-> SubSeq(s, m, DotStarEnd(s, m) - 1), end |-> DotStarEnd(s, m)]
        ELSE NoMatch

\* (?:\s+(?:de|do|da))?\s+(\d+)\s*(.*) at position i: the optional group is
\* greedy, so the branch with the preposition is tried first
PrepNumTail(s, i) ==
    LET j == SpacesEnd(s, i)
        withPrep == SpaceAt(s, i)
                    /\ \E p \in {<<"d", "e">>, <<"d", "o">>, <<"d", "a">>} : HasAt(s, j, p)
        m == NumTail(s, j + 2)
    IN  IF withPrep /\ m.ok THEN m ELSE NumTail(s, i)

\* An ordered alternation followed by \s+(\d+)\s*(.*): the first alternative,
\* in the order written, after which the rest of the pattern matches
RECURSIVE FirstAltNum(_, _, _, _)
FirstAltNum(s, i, alts, k) ==
    IF k > Len(alts) THEN NoMatch
    ELSE LET m == NumTail(s, i + Len(alts[k]))
         IN  IF HasAt(s, i, alts[k]) /\ m.ok THEN m ELSE FirstAltNum(s, i, alts, k + 1)

\* The same, followed by (?:\s+(?:de|do|da))?\s+(\d+)\s*(.*)
RECURSIVE FirstAltPrepNum(_, _, _, _)
FirstAltPrepNum(s, i, alts, k) ==
    IF k > Len(alts) THEN NoMatch
    ELSE LET m == PrepNumTail(s, i + Len(alts[k]))
         IN  IF HasAt(s, i, alts[k]) /\ m.ok THEN m ELSE FirstAltPrepNum(s, i, alts, k + 1)

(***************************************************************************)
(* The pre-compiled patterns.  X_match is pattern.match (anchored at the   *)
(* start), X_search is pattern.search (leftmost match anywhere).           *)
(***************************************************************************)
\* falt(?:a|ando|am|ou|aram|\.?)
FaltaForms == << <<"f","a","l","t","a">>, <<"f","a","l","t","a","n","d","o">>,
                 <<"f","a","l","t","a","m">>, <<"f","a","l","t","o","u">>,
                 <<"f","a","l","t","a","r","a","m">>, <<"f","a","l","t",".">>,
                 <<"f","a","l","t">> >>

\* sobr(?:a|ando|am|ou|aram|\.?)|pass(?:a|ando|aram|ou|\.?)
SobraForms == << <<"s","o","b","r","a">>, <<"s","o","b","r","a","n","d","o">>,
                 <<"s","o","b","r","a","m">>, <<"s","o","b","r","o","u">>,
                 <<"s","o","b","r","a","r","a","m">>, <<"s","o","b","r",".">>,
                 <<"s","o","b","r">>,
                 <<"p","a","s","s","a">>, <<"p","a","s","s","a","n","d","o">>,
                 <<"p","a","s","s","a","r","a","m">>, <<"p","a","s","s","o","u">>,
                 <<"p","a","s","s",".">>, <<"p","a","s","s">> >>

\* Variant: the amount group is a strict integer, so the pattern does not
\* match when a decimal separator and a digit follow the amount
_RE_FALTA_match_strict_integer(s) ==
    LET Strict(m) ==
            IF m.ok /\ Len(m.g2) >= 2 /\ m.g2[1] \in {",", "."} /\ IsDigit(m.g2[2])
            THEN NoMatch ELSE m
    IN  Strict(FirstAltPrepNum(s, 1, FaltaForms, 1))

_RE_FALTA_match(s) == FirstAltPrepNum(s, 1, FaltaForms, 1)

\* Variant: the shorthand without the optional period, ^f\s+(\d+)\s*(.*)
_RE_FALTA_SHORT_no_period(s) == FirstAltNum(s, 1, << <<"f">> >>, 1)

\* ^f\.?\s+(\d+)\s*(.*)
_RE_FALTA_SHORT_match(s) == FirstAltNum(s, 1, << <<"f", ".">>, <<"f">> >>, 1)

\* Variant: the pattern without the pass... family
_RE_SOBRA_sobr_only(s) == FirstAltNum(s, 1, SubSeq(SobraForms, 1, 7), 1)

_RE_SOBRA_match(s) == FirstAltNum(s, 1, SobraForms, 1)

\* ^s\.?\s+(\d+)\s*(.*)
_RE_SOBRA_SHORT_match(s) == FirstAltNum(s, 1, << <<"s", ".">>, <<"s">> >>, 1)

\* \w*\s+(?:de\s+)?(\d+) at position i, after the stem; withDe says whether
\* the pattern has the optional (?:de\s+) group
MidTail(s, i, withDe) ==
    LET j == WordEnd(s, i)
        k == SpacesEnd(s, j)
        d == SpacesEnd(s, k + 2)
        viaDe == withDe /\ HasAt(s, k, <<"d", "e">>) /\ SpaceAt(s, k + 2) /\ DigitAt(s, d)
    IN  IF ~SpaceAt(s, j) THEN NoMatch
        ELSE IF viaDe
             THEN [ok |-> TRUE, g1 |-> SubSeq(s, d, DigitsEnd(s, d) - 1), g2 |-> <<>>,
                   end |-> DigitsEnd(s, d)]
        ELSE IF DigitAt(s, k)
             THEN [ok |-> TRUE, g1 |-> SubSeq(s, k, DigitsEnd(s, k) - 1), g2 |-> <<>>,
                   end |-> DigitsEnd(s, k)]
             ELSE NoMatch

\* search: the match at the leftmost start position that has one
RECURSIVE MidSearchFrom(_, _, _, _)
MidSearchFrom(s, i, stems, withDe) ==
    IF i > Len(s) THEN NoMatch
    ELSE LET here == {w \in stems : HasAt(s, i, w)}
             m == MidTail(s, i + Len(CHOOSE w \in here : TRUE), withDe)
         IN  IF here # {} /\ m.ok THEN m ELSE MidSearchFrom(s, i + 1, stems, withDe)

\* falt\w*\s+(?:de\s+)?(\d+)
_RE_FALTA_MID_search(s) == MidSearchFrom(s, 1, {<<"f","a","l","t">>}, TRUE)

\* (?:sobr|pass)\w*\s+(\d+)
_RE_SOBRA_MID_search(s) ==
    MidSearchFrom(s, 1, {<<"s","o","b","r">>, <<"p","a","s","s">>}, FALSE)

\* ^\d+([.,]\d+)?$  ($ also matches before a final newline)
_RE_ONLY_NUMBER_match(s) ==
    LET k == DigitsEnd(s, 1)
        AtEnd(p) == p = Len(s) + 1 \/ (p = Len(s) /\ s[p] = "\n")
        m == DigitsEnd(s, k + 1)
    IN  /\ k > 1
        /\ \/ (k <= Len(s) /\ s[k] \in {".", ","} /\ m > k + 1 /\ AtEnd(m))
           \/ AtEnd(k)

(***************************************************************************)
(* int(str): the value of a decimal digit string; ValueError otherwise     *)
(***************************************************************************)
DigitVal(c) == CASE c = "0" -> 0 [] c = "1" -> 1 [] c = "2" -> 2 [] c = "3" -> 3
                 [] c = "4" -> 4 [] c = "5" -> 5 [] c = "6" -> 6 [] c = "7" -> 7
                 [] c = "8" -> 8 [] c = "9" -> 9

ValueError == "ValueError"

RECURSIVE IntOfDigits(_)
IntOfDigits(d) ==
    IF d = <<>> THEN 0
    ELSE 10 * IntOfDigits(SubSeq(d, 1, Len(d) - 1)) + DigitVal(d[Len(d)])

IsIntLiteral(d) == d # <<>> /\ \A i \in 1..Len(d) : IsDigit(d[i])

int(d) == IF IsIntLiteral(d) THEN IntOfDigits(d) ELSE ValueError

(***************************************************************************)
(* parse_annotation                                                        *)
(***************************************************************************)
\* An exception leaving the function
Raised == <<ValueError>>

NanTokens == {<<"n", "a", "n">>, <<"n", "o", "n", "e">>}

\* Variant: the tiers are matched against the text in its own letter case
Normalized_case_kept(text) == strip(_RE_SPACES_sub(text))

\* tl = _RE_SPACES.sub(" ", text.lower()).strip()
Normalized(text) == strip(_RE_SPACES_sub(lower(text)))

\* Variant: the difference of a shortage keeps the sign of the amount
falta_return_unsigned(q, g1, obs) ==
    IF IsIntLiteral(g1) THEN <<q - int(g1), int(g1), obs, "falta">> ELSE Raised

\* f = int(m.group(1)); return (qtd_sistema - f, -f, obs, "falta")
falta_return(q, g1, obs) ==
    IF IsIntLiteral(g1) THEN <<q - int(g1), -int(g1), obs, "falta">> ELSE Raised

\* s = int(m.group(1)); return (qtd_sistema + s, s, obs, "sobra")
sobra_return(q, g1, obs) ==
    IF IsIntLiteral(g1) THEN <<q + int(g1), int(g1), obs, "sobra">> ELSE Raised

\* Variant: a damage keyword tier after the anchored tiers
cascade_with_damage_tier(text, tl, q) ==
    LET m1 == _RE_FALTA_match(tl)
        m2 == _RE_FALTA_SHORT_match(tl)
        m3 == _RE_SOBRA_match(tl)
        m4 == _RE_SOBRA_SHORT_match(tl)
        m5 == _RE_FALTA_MID_search(tl)
        m6 == _RE_SOBRA_MID_search(tl)
    IN  IF m1.ok THEN falta_return(q, m1.g1, strip(m1.g2))
        ELSE IF m2.ok THEN falta_return(q, m2.g1, strip(m2.g2))
        ELSE IF m3.ok THEN sobra_return(q, m3.g1, strip(m3.g2))
        ELSE IF m4.ok THEN sobra_return(q, m4.g1, strip(m4.g2))
        ELSE IF \E i \in 1..Len(tl) : HasAt(tl, i, <<"a","v","a","r","i">>)
             THEN <<q, 0, text, "avaria">>
        ELSE IF m5.ok THEN falta_return(q, m5.g1, text)
        ELSE IF m6.ok THEN sobra_return(q, m6.g1, text)
        ELSE <<q, 0, text, "ok">>

\* Variant: the embedded tiers return the text after the amount
cascade_mid_remainder(text, tl, q) ==
    LET m1 == _RE_FALTA_match(tl)
        m2 == _RE_FALTA_SHORT_match(tl)
        m3 == _RE_SOBRA_match(tl)
        m4 == _RE_SOBRA_SHORT_match(tl)
        m5 == _RE_FALTA_MID_search(tl)
        m6 == _RE_SOBRA_MID_search(tl)
    IN  IF m1.ok THEN falta_return(q, m1.g1, strip(m1.g2))
        ELSE IF m2.ok THEN falta_return(q, m2.g1, strip(m2.g2))
        ELSE IF m3.ok THEN sobra_return(q, m3.g1, strip(m3.g2))
        ELSE IF m4.ok THEN sobra_return(q, m4.g1, strip(m4.g2))
        ELSE IF m5.ok THEN falta_return(q, m5.g1, strip(SubSeq(tl, m5.end, Len(tl))))
        ELSE IF m6.ok THEN sobra_return(q, m6.g1, strip(SubSeq(tl, m6.end, Len(tl))))
        ELSE <<q, 0, text, "ok">>

\* Variant: the terminal fallback returns the normalized text
cascade_fallback_normalized(text, tl, q) ==
    LET m1 == _RE_FALTA_match(tl)
        m2 == _RE_FALTA_SHORT_match(tl)
        m3 == _RE_SOBRA_match(tl)
        m4 == _RE_SOBRA_SHORT_match(tl)
        m5 == _RE_FALTA_MID_search(tl)
        m6 == _RE_SOBRA_MID_search(tl)
    IN  IF m1.ok THEN falta_return(q, m1.g1, strip(m1.g2))
        ELSE IF m2.ok THEN falta_return(q, m2.g1, strip(m2.g2))
        ELSE IF m3.ok THEN sobra_return(q, m3.g1, strip(m3.g2))
        ELSE IF m4.ok THEN sobra_return(q, m4.g1, strip(m4.g2))
        ELSE IF m5.ok THEN falta_return(q, m5.g1, text)
        ELSE IF m6.ok THEN sobra_return(q, m6.g1, text)
        ELSE <<q, 0, tl, "ok">>

\* Variant: the embedded overage search is tried before the embedded
\* shortage search
cascade_sobra_mid_first(text, tl, q) ==
    LET m1 == _RE_FALTA_match(tl)
        m2 == _RE_FALTA_SHORT_match(tl)
        m3 == _RE_SOBRA_match(tl)
        m4 == _RE_SOBRA_SHORT_match(tl)
        m5 == _RE_FALTA_MID_search(tl)
        m6 == _RE_SOBRA_MID_search(tl)
    IN  IF m1.ok THEN falta_return(q, m1.g1, strip(m1.g2))
        ELSE IF m2.ok THEN falta_return(q, m2.g1, strip(m2.g2))
        ELSE IF m3.ok THEN sobra_return(q, m3.g1, strip(m3.g2))
        ELSE IF m4.ok THEN sobra_return(q, m4.g1, strip(m4.g2))
        ELSE IF m6.ok THEN sobra_return(q, m6.g1, text)
        ELSE IF m5.ok THEN falta_return(q, m5.g1, text)
        ELSE <<q, 0, text, "ok">>

\* The cascade over the normalized text tl; text is the stripped note
cascade(text, tl, q) ==
    LET m1 == _RE_FALTA_match(tl)
        m2 == _RE_FALTA_SHORT_match(tl)
        m3 == _RE_SOBRA_match(tl)
        m4 == _RE_SOBRA_SHORT_match(tl)
        m5 == _RE_FALTA_MID_search(tl)
        m6 == _RE_SOBRA_MID_search(tl)
    IN  IF m1.ok THEN falta_return(q, m1.g1, strip(m1.g2))
        ELSE IF m2.ok THEN falta_return(q, m2.g1, strip(m2.g2))
        ELSE IF m3.ok THEN sobra_return(q, m3.g1, strip(m3.g2))
        ELSE IF m4.ok THEN sobra_return(q, m4.g1, strip(m4.g2))
        ELSE IF m5.ok THEN falta_return(q, m5.g1, text)
        ELSE IF m6.ok THEN sobra_return(q, m6.g1, text)
        ELSE <<q, 0, text, "ok">>

\* Variant: the nan/none test without .lower()
IsNullNote_case_sensitive(n) ==
    LET text == strip(n) IN n = <<>> \/ text = <<>> \/ text \in NanTokens

\* The guard on the empty, blank and nan/none note
IsNullNote(n) ==
    LET text == strip(n) IN n = <<>> \/ text = <<>> \/ lower(text) \in NanTokens

parse_annotation(n, q) ==
    LET text == strip(n)
    IN  IF IsNullNote(n) THEN <<q, 0, <<>>, "ok">> ELSE cascade(text, Normalized(text), q)

(***************************************************************************)
(* The row loops of parse_estoque_format and parse_vendas_format, from the *)
(* quantity test on.  qtd is the cell after int(float(.)), cell the text   *)
(* of the note cell.  The fields codigo, produto and categoria are copied  *)
(* from the row and do not enter the reconciliation; they are left out.    *)
(***************************************************************************)
NoRecord == [emitted |-> "none"]

\* nota_raw: the stripped cell, emptied when it is NAN/NONE or only a number
nota_raw_of(cell) ==
    LET nv == strip(cell)
    IN  IF upper(nv) \in {<<"N", "A", "N">>, <<"N", "O", "N", "E">>, <<>>}
           \/ _RE_ONLY_NUMBER_match(nv)
        THEN <<>> ELSE nv

record_of(q, parsed) ==
    [emitted |-> "record", qtd_sistema |-> q, qtd_fisica |-> parsed[1],
     diferenca |-> parsed[2], nota |-> parsed[3], status |-> parsed[4]]

estoque_row(qtd, cell) ==
    IF qtd <= 0 THEN NoRecord
    ELSE LET Emit(parsed) ==
                 IF parsed = Raised THEN [emitted |-> "raised"] ELSE record_of(qtd, parsed)
         IN  Emit(parse_annotation(nota_raw_of(cell), qtd))

vendas_row(qtd, qtd_vendida, cell) ==
    IF qtd <= 0
    THEN IF qtd_vendida > 0
         THEN [emitted |-> "zerado", qtd_vendida |-> qtd_vendida, qtd_estoque |-> 0]
         ELSE NoRecord
    ELSE LET Emit(parsed) ==
                 IF parsed = Raised THEN [emitted |-> "raised"]
                 ELSE [emitted |-> "record", qtd_sistema |-> qtd, qtd_fisica |-> parsed[1],
                       diferenca |-> parsed[2], nota |-> parsed[3], status |-> parsed[4],
                       qtd_vendida |-> qtd_vendida]
         IN  Emit(parse_annotation(nota_raw_of(cell), qtd))

(***************************************************************************)
(* Inputs: notes written the way the counting staff writes them.  A note   *)
(* is a list of words (an optional leading word, a verb form, a            *)
(* preposition, an amount, trailing words) laid out with a separator       *)
(* between the words and padding around them.                              *)
(***************************************************************************)
MaxQtd == 0

\* System quantities: the small ones and the 20 of the documented example
QtdValues == (0..MaxQtd) \cup {20}

QtdVendidaValues == {0, 2}

RangeOf(f) == {f[i] : i \in DOMAIN f}

OtherForms == { <<"f">>, <<"f", ".">>, <<"s">>, <<"s", ".">>,
                <<"F","a","l","t","a">>, <<"S">>,
                <<"f","a","l","t","a","v","a">> }

\* Each slot is a list of words; <<>> leaves the slot out
StemSlot == {<<>>} \cup {<<w>> : w \in RangeOf(FaltaForms) \cup RangeOf(SobraForms) \cup OtherForms}

PrepSlot == {<<>>, << <<"d", "e">> >>, << <<"d", "o">> >>, << <<"d", "a">> >>}

NumSlot == {<<>>, << <<"0">> >>, << <<"5">> >>, << <<"1", "2">> >>, << <<"2", ",", "5">> >>}

PrefixSlot == {<<>>, << <<"c", "x">> >>}

TailSlot == { <<>>,
              << <<"a","v","a","r","i","a","d","o">> >>,
              << <<"C","x">>, <<"b">> >>,
              << <<"s","o","b","r","a">>, <<"5">> >>,
              << <<"f","a","l","t","a">>, <<"1","2">> >> }

Layouts == { [sep |-> <<" ">>, pad |-> <<>>], [sep |-> <<"\t", " ">>, pad |-> <<" ">>] }

RECURSIVE Join(_, _)
Join(words, sep) ==
    IF words = <<>> THEN <<>>
    ELSE IF Len(words) = 1 THEN words[1]
    ELSE words[1] \o sep \o Join(Tail(words), sep)

NoteOf(words, lay) == lay.pad \o Join(words, lay.sep) \o lay.pad

PhraseNotes == { NoteOf(pre \o st \o pr \o nu \o ta, lay) :
                   pre \in PrefixSlot, st \in StemSlot, pr \in PrepSlot,
                   nu \in NumSlot, ta \in TailSlot, lay \in Layouts }

\* Null tokens in several letter cases, text with a null token inside, and
\* punctuation-only text
SpecialWords == { << <<"n","a","n">> >>, << <<"N","a","N">> >>, << <<"N","A","N">> >>,
                  << <<"n","o","n","e">> >>, << <<"N","o","n","e">> >>,
                  << <<"N","O","N","E">> >>,
                  << <<"n","a","n">>, <<"5">> >>, << <<"n","o","n","e">>, <<"c","x">> >>,
                  << <<".">> >>, << <<":", "-">>, <<",">> >>, << <<"-", "5">> >> }

SpecialNotes == { NoteOf(ws, lay) : ws \in SpecialWords, lay \in Layouts }
                \cup { <<" ">>, <<"\t", " ">>, <<"\n">> }

Notes == PhraseNotes \cup SpecialNotes

(***************************************************************************)
(* The state machine: a call of parse_annotation, or a sheet row carrying  *)
(* the note, on each input                                                 *)
(***************************************************************************)
NoResult == <<>>

NoOutcome == [kind |-> "none"]

Init ==
    /\ nota \in Notes
    /\ qtd_sistema \in QtdValues
    /\ result = NoResult
    /\ record = NoRecord
    /\ pc = "input"
    /\ sheet = <<>>
    /\ outcome = NoOutcome
    /\ label = <<>>
    /\ category = <<>>
    /\ attempt = 0
    /\ responses = <<>>
    /\ reply = [kind |-> "none"]
    /\ db = <<>>
    /\ durable = <<>>
    /\ call = [name |-> "none"]

ParseAnnotation ==
    /\ pc = "input"
    /\ result' = parse_annotation(nota, qtd_sistema)
    /\ pc' = "parsed"
    /\ UNCHANGED <<nota, qtd_sistema, record>>
    /\ UNCHANGED <<sheetVars, labelVars, clientVars, dbVars>>

EstoqueRow ==
    /\ pc = "input"
    /\ record' = estoque_row(qtd_sistema, nota)
    /\ pc' = "estoque"
    /\ UNCHANGED <<nota, qtd_sistema, result>>
    /\ UNCHANGED <<sheetVars, labelVars, clientVars, dbVars>>

VendasRow ==
    /\ pc = "input"
    /\ \E v \in QtdVendidaValues : record' = vendas_row(qtd_sistema, v, nota)
    /\ pc' = "vendas"
    /\ UNCHANGED <<nota, qtd_sistema, result>>
    /\ UNCHANGED <<sheetVars, labelVars, clientVars, dbVars>>

Next == ParseAnnotation \/ EstoqueRow \/ VendasRow

Spec == Init /\ [][Next]_vars

TypeOK ==
    /\ pc \in {"input", "parsed", "estoque", "vendas"}
    /\ qtd_sistema \in QtdValues

(***************************************************************************)
(* Cells of the uploaded sheet (the DataFrame pandas reads with            *)
(* header=None).  A cell is blank (NaN), a number or a text.  A number is  *)
(* kept in tenths, so 157 is 15.7.                                         *)
(***************************************************************************)
Blank == [kind |-> "blank", tenths |-> 0, text |-> <<>>]

Num(t) == [kind |-> "num", tenths |-> t, text |-> <<>>]

T(s) == [kind |-> "text", tenths |-> 0, text |-> s]

DigitChar(d) == CASE d = 0 -> "0" [] d = 1 -> "1" [] d = 2 -> "2" [] d = 3 -> "3"
                  [] d = 4 -> "4" [] d = 5 -> "5" [] d = 6 -> "6" [] d = 7 -> "7"
                  [] d = 8 -> "8" [] d = 9 -> "9"

\* The decimal digits of a natural number
RECURSIVE DigitsOf(_)
DigitsOf(n) == IF n < 10 THEN <<DigitChar(n)>> ELSE DigitsOf(n \div 10) \o <<DigitChar(n % 10)>>

\* str(v): "nan" for a blank cell, the repr of the float for a number
str(v) ==
    CASE v.kind = "blank" -> <<"n", "a", "n">>
      [] v.kind = "text" -> v.text
      [] v.kind = "num" ->
           LET a == IF v.tenths < 0 THEN -v.tenths ELSE v.tenths
           IN  (IF v.tenths < 0 THEN <<"-">> ELSE <<>>)
               \o DigitsOf(a \div 10) \o <<".">> \o <<DigitChar(a % 10)>>

\* pd.isna(v), pd.notna(v)
isna(v) == v.kind = "blank"

OverflowError == "OverflowError"

\* float(s) of a text: surrounding whitespace and a sign are allowed, then
\* inf, infinity or nan in any letter case or a decimal number with an
\* optional fraction and an optional exponent.  The value is given as its
\* class and, when finite, its integer part (what int() keeps).  A number of
\* more than 308 decimal places before the point is an infinity.  The steps
\* are read from the last one upwards: Unsigned splits the sign off, Integer,
\* Fraction and Exponent find the three parts, Value puts them together.
float_of_text(s) ==
    LET Value(sign, b, wellFormed, digits, point) ==
            LET kept == IF point <= 0 THEN <<>>
                        ELSE IF point <= Len(digits) THEN SubSeq(digits, 1, point)
                        ELSE digits \o [k \in 1..(point - Len(digits)) |-> "0"]
            IN  IF b \in {<<"i","n","f">>, <<"i","n","f","i","n","i","t","y">>}
                THEN [exc |-> "none", class |-> "inf", trunc |-> 0]
                ELSE IF b = <<"n","a","n">>
                THEN [exc |-> "none", class |-> "nan", trunc |-> 0]
                ELSE IF digits = <<>> \/ ~wellFormed
                THEN [exc |-> ValueError, class |-> "none", trunc |-> 0]
                ELSE IF point > 308 + 1 /\ \E k \in 1..Len(digits) : digits[k] # "0"
                THEN [exc |-> "none", class |-> "inf", trunc |-> 0]
                ELSE [exc |-> "none", class |-> "finite", trunc |-> sign * IntOfDigits(kept)]
        Exponent(sign, b, iEnd, fStart, fEnd, hasExp, eStart, eEnd) ==
            LET expo == IF ~hasExp THEN 0
                        ELSE (IF b[fEnd + 1] = "-" THEN -1 ELSE 1) * IntOfDigits(SubSeq(b, eStart, eEnd - 1))
            IN  Value(sign, b, ~(hasExp /\ eEnd = eStart) /\ eEnd = Len(b) + 1,
                      SubSeq(b, 1, iEnd - 1) \o SubSeq(b, fStart, fEnd - 1), (iEnd - 1) + expo)
        ExponentAt(sign, b, iEnd, fStart, fEnd, hasExp, eStart) ==
            Exponent(sign, b, iEnd, fStart, fEnd, hasExp, eStart,
                     IF hasExp THEN DigitsEnd(b, eStart) ELSE fEnd)
        Fraction(sign, b, iEnd, fStart, fEnd) ==
            LET hasExp == fEnd <= Len(b) /\ b[fEnd] = "e"
                eSigned == fEnd + 1 <= Len(b) /\ b[fEnd + 1] \in {"-", "+"}
            IN  ExponentAt(sign, b, iEnd, fStart, fEnd, hasExp,
                           IF ~hasExp THEN fEnd ELSE IF eSigned THEN fEnd + 2 ELSE fEnd + 1)
        FractionAt(sign, b, iEnd, hasDot, fStart) ==
            Fraction(sign, b, iEnd, fStart, IF hasDot THEN DigitsEnd(b, fStart) ELSE iEnd)
        Integer(sign, b, iEnd) ==
            LET hasDot == iEnd <= Len(b) /\ b[iEnd] = "."
            IN  FractionAt(sign, b, iEnd, hasDot, IF hasDot THEN iEnd + 1 ELSE iEnd)
        Unsigned(sign, b) == Integer(sign, b, DigitsEnd(b, 1))
        Stripped(t) ==
            LET signed == t # <<>> /\ t[1] \in {"-", "+"}
                neg == t # <<>> /\ t[1] = "-"
            IN  Unsigned(IF neg THEN -1 ELSE 1, lower(IF signed THEN SubSeq(t, 2, Len(t)) ELSE t))
    IN  Stripped(strip(s))

\* float(v) of a cell
float(v) ==
    CASE v.kind = "blank" -> [exc |-> "none", class |-> "nan", trunc |-> 0]
      [] v.kind = "text" -> float_of_text(v.text)
      [] v.kind = "num" ->
           [exc |-> "none", class |-> "finite",
            trunc |-> IF v.tenths < 0 THEN -((-v.tenths) \div 10) ELSE v.tenths \div 10]

\* Variant: int(v) without the float in between, which accepts digits only
int_without_float(v) ==
    IF v.kind = "text"
    THEN IF IsIntLiteral(strip(v.text)) THEN [exc |-> "none", val |-> IntOfDigits(strip(v.text))]
         ELSE [exc |-> ValueError, val |-> 0]
    ELSE IF v.kind = "blank" THEN [exc |-> ValueError, val |-> 0]
    ELSE [exc |-> "none", val |-> IF v.tenths < 0 THEN -((-v.tenths) \div 10) ELSE v.tenths \div 10]

\* int(float(v)): the integer part; ValueError for a text that is no number
\* and for nan, OverflowError for an infinity
int_float(v) ==
    LET Truncated(f) ==
            IF f.exc # "none" THEN [exc |-> f.exc, val |-> 0]
            ELSE IF f.class = "inf" THEN [exc |-> OverflowError, val |-> 0]
            ELSE IF f.class = "nan" THEN [exc |-> ValueError, val |-> 0]
            ELSE [exc |-> "none", val |-> f.trunc]
    IN  Truncated(float(v))

\* The exceptions the row loops catch: except (ValueError, TypeError)
CaughtInRowLoop == {ValueError, "TypeError"}

(***************************************************************************)
(* Product classification and group labels                                 *)
(***************************************************************************)
\* kw in n
Contains(n, kw) == \E i \in 1..(Len(n) - Len(kw) + 1) : SubSeq(n, i, i + Len(kw) - 1) = kw

_CLASSIFY_RULES ==
    << [cat |-> <<"H", "E", "R", "B", "I", "C", "I", "D", "A", "S">>, keywords |-> << <<"H", "E", "R", "B", "I", "C", "I", "D", "A">> >>],
       [cat |-> <<"F", "U", "N", "G", "I", "C", "I", "D", "A", "S">>, keywords |-> << <<"F", "U", "N", "G", "I", "C", "I", "D", "A">> >>],
       [cat |-> <<"I", "N", "S", "E", "T", "I", "C", "I", "D", "A", "S">>, keywords |-> << <<"I", "N", "S", "E", "T", "I", "C", "I", "D", "A">> >>],
       [cat |-> <<"N", "E", "M", "A", "T", "I", "C", "I", "D", "A", "S">>, keywords |-> << <<"N", "E", "M", "A", "T", "I", "C", "I", "D", "A">> >>],
       [cat |-> <<"A", "D", "U", "B", "O", "S", " ", "F", "O", "L", "I", "A", "R", "E", "S">>, keywords |-> << <<"A", "D", "U", "B", "O", " ", "F", "O", "L", "I", "A", "R">> >>],
       [cat |-> <<"A", "D", "U", "B", "O", "S", " ", "Q", "U", "Í", "M", "I", "C", "O", "S">>, keywords |-> << <<"A", "D", "U", "B", "O", " ", "Q">> >>],
       [cat |-> <<"A", "D", "U", "B", "O", "S", " ", "C", "O", "R", "R", "E", "T", "I", "V", "O", "S">>,
        keywords |-> << <<"A", "D", "U", "B", "O", " ", "C", "O", "R", "R", "E", "T", "I", "V", "O">>, <<"C", "A", "L", "C", "A", "R", "I", "O">>, <<"C", "A", "L", "C", "Á", "R", "I", "O">> >>],
       [cat |-> <<"Ó", "L", "E", "O", "S">>, keywords |-> << <<"O", "L", "E", "O">>, <<"Ó", "L", "E", "O">> >>],
       [cat |-> <<"S", "E", "M", "E", "N", "T", "E", "S">>, keywords |-> << <<"S", "E", "M", "E", "N", "T", "E">> >>],
       [cat |-> <<"A", "D", "J", "U", "V", "A", "N", "T", "E", "S">>, keywords |-> << <<"A", "D", "J", "U", "V", "A", "N", "T", "E">>, <<"E", "S", "P", "A", "L", "H", "A", "N", "T", "E">> >>],
       [cat |-> <<"M", "E", "D", "I", "C", "A", "M", "E", "N", "T", "O", "S">>,
        keywords |-> << <<"M", "E", "D", "I", "C", "A", "M", "E", "N", "T", "O">>, <<"V", "E", "R", "M", "I", "F", "U", "G", "O">>, <<"V", "E", "R", "M", "Í", "F", "U", "G", "O">>, <<"V", "A", "C", "I", "N", "A">>,
                        <<"A", "N", "T", "I", "B", "I", "O", "T", "I", "C", "O">>, <<"A", "N", "T", "I", "B", "I", "Ó", "T", "I", "C", "O">> >>] >>

OUTROS == <<"O", "U", "T", "R", "O", "S">>

\* Variant: the rules are tried from the last to the first
RECURSIVE classify_from_last_rule_first(_, _)
classify_from_last_rule_first(n, k) ==
    IF k > Len(_CLASSIFY_RULES) THEN OUTROS
    ELSE LET rule == _CLASSIFY_RULES[Len(_CLASSIFY_RULES) + 1 - k]
         IN  IF \E j \in 1..Len(rule.keywords) : Contains(n, rule.keywords[j])
             THEN rule.cat
             ELSE classify_from_last_rule_first(n, k + 1)

\* for cat, keywords in _CLASSIFY_RULES: for kw in keywords: if kw in n: return cat
RECURSIVE classify_from(_, _)
classify_from(n, k) ==
    IF k > Len(_CLASSIFY_RULES) THEN OUTROS
    ELSE LET rule == _CLASSIFY_RULES[k]
         IN  IF \E j \in 1..Len(rule.keywords) : Contains(n, rule.keywords[j])
             THEN rule.cat
             ELSE classify_from(n, k + 1)

classify_product(name) == classify_from(upper(name), 1)

\* The dictionary as the list of its (key, value) items
_GRUPO_MAP ==
    << <<<<"A", "D", "U", "B", "O", "S", " ", "F", "O", "L", "I", "A", "R", "E", "S">>, <<"A", "D", "U", "B", "O", "S", " ", "F", "O", "L", "I", "A", "R", "E", "S">>>>,
       <<<<"A", "D", "U", "B", "O", "S", " ", "Q", "U", "I", "M", "I", "C", "O", "S">>, <<"A", "D", "U", "B", "O", "S", " ", "Q", "U", "Í", "M", "I", "C", "O", "S">>>>,
       <<<<"A", "D", "U", "B", "O", "S", " ", "C", "O", "R", "R", "E", "T", "I", "V", "O", "S">>, <<"A", "D", "U", "B", "O", "S", " ", "C", "O", "R", "R", "E", "T", "I", "V", "O", "S">>>>,
       <<<<"H", "E", "R", "B", "I", "C", "I", "D", "A", "S">>, <<"H", "E", "R", "B", "I", "C", "I", "D", "A", "S">>>>,
       <<<<"F", "U", "N", "G", "I", "C", "I", "D", "A", "S">>, <<"F", "U", "N", "G", "I", "C", "I", "D", "A", "S">>>>,
       <<<<"I", "N", "S", "E", "T", "I", "C", "I", "D", "A", "S">>, <<"I", "N", "S", "E", "T", "I", "C", "I", "D", "A", "S">>>>,
       <<<<"N", "E", "M", "A", "T", "I", "C", "I", "D", "A", "S">>, <<"N", "E", "M", "A", "T", "I", "C", "I", "D", "A", "S">>>>,
       <<<<"O", "L", "E", "O", " ", "M", "I", "N", "E", "R", "A", "L", " ", "E", " ", "V", "E", "G", "E", "T", "A", "L">>, <<"Ó", "L", "E", "O", "S">>>>,
       <<<<"A", "D", "J", "U", "V", "A", "N", "T", "E", "S">>, <<"A", "D", "J", "U", "V", "A", "N", "T", "E", "S">>>>,
       <<<<"S", "E", "M", "E", "N", "T", "E", "S">>, <<"S", "E", "M", "E", "N", "T", "E", "S">>>>,
       <<<<"M", "E", "D", "I", "C", "A", "M", "E", "N", "T", "O", "S">>, <<"M", "E", "D", "I", "C", "A", "M", "E", "N", "T", "O", "S">>>>,
       <<<<"M", "E", "D", "I", "C", "A", "M", "E", "N", "T", "O", "S", " ", "V", "E", "T", "E", "R", "I", "N", "Á", "R", "I", "O", "S">>, <<"M", "E", "D", "I", "C", "A", "M", "E", "N", "T", "O", "S">>>>,
       <<<<"M", "E", "D", "I", "C", "A", "M", "E", "N", "T", "O", "S", " ", "V", "E", "T", "E", "R", "I", "N", "A", "R", "I", "O", "S">>, <<"M", "E", "D", "I", "C", "A", "M", "E", "N", "T", "O", "S">>>>,
       <<<<"V", "A", "C", "I", "N", "A", " ", "A", "F", "T", "O", "S", "A">>, <<"V", "A", "C", "I", "N", "A", " ", "A", "F", "T", "O", "S", "A">>>>,
       <<<<"V", "A", "C", "I", "N", "A", "S", " ", "D", "I", "V", "E", "R", "S", "A", "S", "/", "S", "O", "R", "O", "S">>, <<"V", "A", "C", "I", "N", "A", "S", " ", "D", "I", "V", "E", "R", "S", "A", "S", "/", "S", "O", "R", "O", "S">>>>,
       <<<<"A", "N", "T", "I", "B", "I", "O", "T", "I", "C", "O", "S", "/", "A", "N", "T", "I", "-", "I", "N", "F", "L", "A", "M", "A", "T", "O", "R", "I", "O">>, <<"A", "N", "T", "I", "B", "I", "O", "T", "I", "C", "O", "S", "/", "A", "N", "T", "I", "-", "I", "N", "F", "L", "A", "M", "A", "T", "O", "R", "I", "O">>>>,
       <<<<"A", "N", "E", "S", "T", "E", "S", "I", "C", "O", "/", "A", "N", "A", "L", "G", "E", "S", "I", "C", "O", "/", "D", "I", "U", "R", "E", "T", "I", "C">>, <<"A", "N", "E", "S", "T", "E", "S", "I", "C", "O", "/", "A", "N", "A", "L", "G", "E", "S", "I", "C", "O", "/", "D", "I", "U", "R", "E", "T", "I", "C">>>>,
       <<<<"A", "N", "T", "I", "T", "O", "X", "I", "C", "O", "S">>, <<"A", "N", "T", "I", "T", "O", "X", "I", "C", "O", "S">>>>,
       <<<<"V", "E", "R", "M", "I", "F", "U", "G", "O", "S">>, <<"V", "E", "R", "M", "I", "F", "U", "G", "O", "S">>>>,
       <<<<"M", "O", "S", "Q", "U", "I", "C", "I", "D", "A", "/", "C", "A", "R", "R", "A", "P", "A", "T", "I", "C", "I", "D", "A", "/", "B", "E", "R", "N", "I">>, <<"M", "O", "S", "Q", "U", "I", "C", "I", "D", "A", "/", "C", "A", "R", "R", "A", "P", "A", "T", "I", "C", "I", "D", "A", "/", "B", "E", "R", "N", "I">>>>,
       <<<<"U", "N", "G", "U", "E", "N", "T", "O", "S", "/", "P", "O", "M", "A", "D", "A", "S">>, <<"U", "N", "G", "U", "E", "N", "T", "O", "S", "/", "P", "O", "M", "A", "D", "A", "S">>>>,
       <<<<"H", "O", "M", "E", "O", "P", "A", "T", "I", "C", "O">>, <<"H", "O", "M", "E", "O", "P", "A", "T", "I", "C", "O">>>>,
       <<<<"H", "O", "R", "M", "O", "N", "I", "O", "S", " ", "L", "E", "I", "T", "E", "I", "R", "O", "S">>, <<"H", "O", "R", "M", "O", "N", "I", "O", "S", " ", "L", "E", "I", "T", "E", "I", "R", "O", "S">>>>,
       <<<<"T", "O", "N", "I", "C", "O", " ", "M", "I", "N", "E", "R", "A", "L", "/", "V", "I", "T", "A", "M", "I", "N", "A", "S">>, <<"T", "O", "N", "I", "C", "O", " ", "M", "I", "N", "E", "R", "A", "L", "/", "V", "I", "T", "A", "M", "I", "N", "A", "S">>>>,
       <<<<"R", "E", "P", "R", "O", "D", "U", "C", "A", "O", " ", "A", "N", "I", "M", "A", "L">>, <<"R", "E", "P", "R", "O", "D", "U", "C", "A", "O", " ", "A", "N", "I", "M", "A", "L">>>>,
       <<<<"R", "E", "P", "R", "O", "D", "U", "T", "O", "R", "E", "S">>, <<"R", "E", "P", "R", "O", "D", "U", "T", "O", "R", "E", "S">>>>,
       <<<<"I", "D", "E", "N", "T", "I", "F", "I", "C", "A", "C", "A", "O", " ", "A", "N", "I", "M", "A", "L">>, <<"I", "D", "E", "N", "T", "I", "F", "I", "C", "A", "C", "A", "O", " ", "A", "N", "I", "M", "A", "L">>>>,
       <<<<"I", "N", "O", "C", "U", "L", "A", "N", "T", "E", "S", " ", "P", "/", " ", "S", "I", "L", "A", "G", "E", "M">>, <<"I", "N", "O", "C", "U", "L", "A", "N", "T", "E", "S", " ", "P", "/", " ", "S", "I", "L", "A", "G", "E", "M">>>>,
       <<<<"D", "I", "E", "T", "A", " ", "A", "N", "I", "M", "A", "L">>, <<"D", "I", "E", "T", "A", " ", "A", "N", "I", "M", "A", "L">>>>,
       <<<<"R", "A", "T", "I", "C", "I", "D", "A", "S">>, <<"R", "A", "T", "I", "C", "I", "D", "A", "S">>>> >>

\* d.get(key, default)
RECURSIVE dict_get(_, _, _, _)
dict_get(d, key, default, i) ==
    IF i > Len(d) THEN default
    ELSE IF d[i][1] = key THEN d[i][2]
    ELSE dict_get(d, key, default, i + 1)

\* Variant: the label is looked up and returned without being trimmed
normalize_grupo_untrimmed(grupo) ==
    LET g == upper(grupo) IN dict_get(_GRUPO_MAP, g, g, 1)

normalize_grupo(grupo) ==
    LET g == upper(strip(grupo)) IN dict_get(_GRUPO_MAP, g, g, 1)

(***************************************************************************)
(* Format detection and header search.  df_raw is the list of the rows of  *)
(* the sheet, a row the list of its cells; rows and columns are counted    *)
(* from 1, and NoHeader stands for the None of _find_header.               *)
(***************************************************************************)
Min(a, b) == IF a <= b THEN a ELSE b

\* vals = [str(v).strip().upper() for v in df_raw.iloc[i].tolist()]
row_vals(row) == [j \in 1..Len(row) |-> upper(strip(str(row[j])))]

InVals(vals, w) == \E j \in 1..Len(vals) : vals[j] = w

VendasMarkers == {<<"Q", "T", "D", "D", " ", "-", " ", "V", "E", "N", "D", "I", "D", "A">>, <<"Q", "T", "D", "D", " ", "E", "S", "T", "O", "Q", "U", "E">>, <<"G", "R", "U", "P", "O", " ", "D", "E", " ", "P", "R", "O", "D", "U", "T", "O">>}

is_qtd_name(v) == Contains(v, <<"Q", "U", "A", "N", "T", "I", "D", "A", "D", "E">>) \/ v = <<"Q", "T", "D">>

\* Variant: the header test without "PRODUTO" in vals
estoque_header_check_quantity_only(vals) == \E j \in 1..Len(vals) : is_qtd_name(vals[j])

\* "PRODUTO" in vals and any("QUANTIDADE" in v or v == "QTD" for v in vals)
estoque_header_check(vals) ==
    InVals(vals, <<"P", "R", "O", "D", "U", "T", "O">>) /\ \E j \in 1..Len(vals) : is_qtd_name(vals[j])

\* "PRODUTO" in vals and ("QTDD" in " ".join(vals) or "VENDIDA" in " ".join(vals))
vendas_header_check(vals) ==
    LET row_text == Join(vals, <<" ">>)
    IN  InVals(vals, <<"P", "R", "O", "D", "U", "T", "O">>)
        /\ (Contains(row_text, <<"Q", "T", "D", "D">>) \/ Contains(row_text, <<"V", "E", "N", "D", "I", "D", "A">>))

\* The rows detect_format looks at
DetectRows == 10

\* Variant: the structural test comes before the sales markers
RECURSIVE detect_from_estoque_first(_, _)
detect_from_estoque_first(df_raw, i) ==
    IF i > Min(DetectRows, Len(df_raw)) THEN "desconhecido"
    ELSE LET vals == row_vals(df_raw[i])
             row_text == Join(vals, <<" ">>)
         IN  IF estoque_header_check(vals) THEN "estoque"
             ELSE IF \E x \in VendasMarkers : Contains(row_text, x) THEN "vendas"
             ELSE detect_from_estoque_first(df_raw, i + 1)

RECURSIVE detect_from(_, _)
detect_from(df_raw, i) ==
    IF i > Min(DetectRows, Len(df_raw)) THEN "desconhecido"
    ELSE LET vals == row_vals(df_raw[i])
             row_text == Join(vals, <<" ">>)
         IN  IF \E x \in VendasMarkers : Contains(row_text, x) THEN "vendas"
             ELSE IF estoque_header_check(vals) THEN "estoque"
             ELSE detect_from(df_raw, i + 1)

detect_format(df_raw) == detect_from(df_raw, 1)

NoHeader == 0

\* The default of max_rows
max_rows == 15

\* check_fn is the test of the format fmt
RECURSIVE find_header_from(_, _, _)
find_header_from(df_raw, fmt, i) ==
    IF i > Min(max_rows, Len(df_raw)) THEN NoHeader
    ELSE LET vals == row_vals(df_raw[i])
         IN  IF (fmt = "estoque" /\ estoque_header_check(vals))
                \/ (fmt = "vendas" /\ vendas_header_check(vals))
             THEN i
             ELSE find_header_from(df_raw, fmt, i + 1)

_find_header(df_raw, fmt) == find_header_from(df_raw, fmt, 1)

\* df.columns = [str(c).strip() ... for c in raw_cols]
columns_of(df_raw, h) == [j \in 1..Len(df_raw[h]) |-> strip(str(df_raw[h][j]))]

\* The position of the column called c; the names of a header are distinct
col_index(cols, c) == CHOOSE j \in 1..Len(cols) : cols[j] = c /\ \A k \in 1..(j - 1) : cols[k] # c

\* row.get(c)
row_get(row, cols, c) == row[col_index(cols, c)]

(***************************************************************************)
(* parse_estoque_format.  A role of col_map holds the list of the one      *)
(* column name it was given, or the empty list.                            *)
(***************************************************************************)
is_codigo_name(cu) == cu \in {<<"C", "Ó", "D", "I", "G", "O">>, <<"C", "O", "D", "I", "G", "O">>, <<"C", "O", "D">>}

is_nota_name(cu) ==
    Contains(cu, <<"O", "B", "S">>) \/ Contains(cu, <<"N", "O", "T", "A">>) \/ Contains(cu, <<"D", "I", "F", "E", "R", "E", "N">>) \/ Contains(cu, <<"A", "N", "O", "T", "A">>)

\* Variant: a role goes to the last column that satisfies its rule
RECURSIVE col_map_from_last_wins(_, _, _)
col_map_from_last_wins(cols, i, m) ==
    IF i > Len(cols) THEN m
    ELSE LET c == cols[i]
             cu == strip(upper(c))
         IN  col_map_from_last_wins(cols, i + 1,
                 IF cu = <<"P", "R", "O", "D", "U", "T", "O">> THEN [m EXCEPT !.produto = <<c>>]
                 ELSE IF is_qtd_name(cu) THEN [m EXCEPT !.qtd = <<c>>]
                 ELSE IF is_codigo_name(cu) THEN [m EXCEPT !.codigo = <<c>>]
                 ELSE IF is_nota_name(cu) THEN [m EXCEPT !.nota = <<c>>]
                 ELSE m)

\* for c in df.columns: the if/elif chain over the roles
RECURSIVE col_map_from(_, _, _)
col_map_from(cols, i, m) ==
    IF i > Len(cols) THEN m
    ELSE LET c == cols[i]
             cu == strip(upper(c))
         IN  col_map_from(cols, i + 1,
                 IF cu = <<"P", "R", "O", "D", "U", "T", "O">> /\ m.produto = <<>> THEN [m EXCEPT !.produto = <<c>>]
                 ELSE IF is_qtd_name(cu) /\ m.qtd = <<>> THEN [m EXCEPT !.qtd = <<c>>]
                 ELSE IF is_codigo_name(cu) /\ m.codigo = <<>> THEN [m EXCEPT !.codigo = <<c>>]
                 ELSE IF is_nota_name(cu) /\ m.nota = <<>> THEN [m EXCEPT !.nota = <<c>>]
                 ELSE m)

\* head(20)
SampleSize == 20

\* df[c].dropna().astype(str): the texts of the non-blank cells of column j
\* in the rows below the header h, from row r on
RECURSIVE dropna_astype_str(_, _, _, _)
dropna_astype_str(df_raw, h, j, r) ==
    IF r > Len(df_raw) THEN <<>>
    ELSE (IF isna(df_raw[r][j]) THEN <<>> ELSE <<str(df_raw[r][j])>>)
         \o dropna_astype_str(df_raw, h, j, r + 1)

Take(s, n) == SubSeq(s, 1, Min(n, Len(s)))

\* _RE_ALPHA.search(x)
_RE_ALPHA_search(x) == \E k \in 1..Len(x) : x[k] \in LowerChars \cup UpperChars

NullTexts == {<<"N", "A", "N">>, <<"N", "O", "N", "E">>, <<>>}

\* bool(_RE_ALPHA.search(x)) and x.upper() not in ("NAN", "NONE", "")
is_note_text(x) == _RE_ALPHA_search(x) /\ upper(x) \notin NullTexts

\* The first column outside used whose sample holds a note text
RECURSIVE nota_fallback_from(_, _, _, _, _)
nota_fallback_from(df_raw, h, cols, used, j) ==
    IF j > Len(cols) THEN <<>>
    ELSE IF cols[j] \notin used
            /\ LET sample == Take(dropna_astype_str(df_raw, h, j, h + 1), SampleSize)
               IN  \E k \in 1..Len(sample) : is_note_text(sample[k])
         THEN <<cols[j]>>
         ELSE nota_fallback_from(df_raw, h, cols, used, j + 1)

\* col_map after the loop over the columns and the search for a note column
estoque_col_map(df_raw, h) ==
    LET cols == columns_of(df_raw, h)
        m == col_map_from(cols, 1, [produto |-> <<>>, qtd |-> <<>>, codigo |-> <<>>, nota |-> <<>>])
        used == {c \in RangeOf(cols) : <<c>> \in {m.produto, m.qtd, m.codigo, m.nota}}
    IN  IF m.produto = <<>> \/ m.qtd = <<>> \/ m.nota # <<>> THEN m
        ELSE [m EXCEPT !.nota = nota_fallback_from(df_raw, h, cols, used, 1)]

\* _RE_NON_ALNUM.sub("", s)
_RE_NON_ALNUM_sub(s) == SelectSeq(s, LAMBDA c : c \in UpperChars \cup DigitChars)

CodeLength == 20

\* Variant: the name is cut to 20 characters before it is cleaned
auto_code_cut_first(name) ==
    <<"A", "U", "T", "O", "_">> \o _RE_NON_ALNUM_sub(Take(upper(name), CodeLength))

\* "AUTO_" + _RE_NON_ALNUM.sub("", produto.upper())[:20]
auto_code(name) == <<"A", "U", "T", "O", "_">> \o Take(_RE_NON_ALNUM_sub(upper(name)), CodeLength)

\* if col: a role that has a column with a non-empty name
HasColumn(role) == role # <<>> /\ role[1] # <<>>

\* One pass of the loop over df.iterrows(): a record, nothing, or an
\* exception that leaves the loop
estoque_record(row, cols, m) ==
    LET produto == strip(str(row_get(row, cols, m.produto[1])))
        raw_val == row_get(row, cols, m.qtd[1])
        q == int_float(raw_val)
        cod == IF HasColumn(m.codigo)
               THEN LET c == strip(str(row_get(row, cols, m.codigo[1])))
                    IN  IF upper(c) \in NullTexts THEN <<>> ELSE c
               ELSE <<>>
        codigo == IF cod = <<>> THEN auto_code(produto) ELSE cod
        cell == IF HasColumn(m.nota) THEN str(row_get(row, cols, m.nota[1])) ELSE <<>>
        Record(rec) ==
            IF rec.emitted = "raised" THEN [emitted |-> "raised", exc |-> ValueError]
            ELSE IF rec.emitted = "none" THEN NoRecord
            ELSE [codigo |-> codigo, produto |-> produto,
                  categoria |-> classify_product(produto)] @@ rec
    IN  IF produto = <<>> \/ upper(produto) \in {<<"N", "A", "N">>, <<"N", "O", "N", "E">>, <<"T", "O", "T", "A", "L">>, <<"P", "R", "O", "D", "U", "T", "O">>, <<"R", "O", "L", "L", "U", "P">>} THEN NoRecord
        ELSE IF isna(raw_val) THEN NoRecord
        ELSE IF q.exc \in CaughtInRowLoop THEN NoRecord
        ELSE IF q.exc # "none" THEN [emitted |-> "raised", exc |-> q.exc]
        ELSE Record(estoque_row(q.val, cell))

\* What a function call comes to: a returned tuple or an exception
Return2(ok, message, records) ==
    [kind |-> "return", arity |-> 2, ok |-> ok, message |-> message,
     records |-> records, zerados |-> <<>>, exc |-> "none"]

Return3(ok, message, records, zerados) ==
    [kind |-> "return", arity |-> 3, ok |-> ok, message |-> message,
     records |-> records, zerados |-> zerados, exc |-> "none"]

Raise(exc) ==
    [kind |-> "raise", arity |-> 0, ok |-> FALSE, message |-> "",
     records |-> <<>>, zerados |-> <<>>, exc |-> exc]

\* The loop over the rows below the header, from row r on
RECURSIVE estoque_rows(_, _, _, _)
estoque_rows_break_on_skipped(df_raw, cols, m, r) ==
    IF r > Len(df_raw) THEN [exc |-> "none", records |-> <<>>]
    ELSE LET Rest(rec, rest) ==
                 IF rest.exc # "none" THEN rest
                 ELSE [exc |-> "none", records |-> <<rec>> \o rest.records]
             Row(rec) ==
                 IF rec.emitted = "raised" THEN [exc |-> rec.exc, records |-> <<>>]
                 ELSE IF rec.emitted # "record" THEN [exc |-> "none", records |-> <<>>]
                 ELSE Rest(rec, estoque_rows(df_raw, cols, m, r + 1))
         IN  Row(estoque_record(df_raw[r], cols, m))

estoque_rows(df_raw, cols, m, r) ==
    IF r > Len(df_raw) THEN [exc |-> "none", records |-> <<>>]
    ELSE LET Rest(rec, rest) ==
                 IF rest.exc # "none" THEN rest
                 ELSE [exc |-> "none",
                       records |-> (IF rec.emitted = "record" THEN <<rec>> ELSE <<>>)
                                   \o rest.records]
             Row(rec) ==
                 IF rec.emitted = "raised" THEN [exc |-> rec.exc, records |-> <<>>]
                 ELSE Rest(rec, estoque_rows(df_raw, cols, m, r + 1))
         IN  Row(estoque_record(df_raw[r], cols, m))

EstoqueNoColumns == "Colunas: ... - falta 'Produto' ou 'Quantidade'."

EstoqueNoRows == "Nenhum dado válido na planilha de estoque."

parse_estoque_format(df_raw) ==
    LET h == _find_header(df_raw, "estoque")
        m == estoque_col_map(df_raw, h)
        Rows(loop) ==
            IF loop.exc # "none" THEN Raise(loop.exc)
            ELSE IF loop.records # <<>> THEN Return2(TRUE, "", loop.records)
            ELSE Return2(FALSE, EstoqueNoRows, <<>>)
    IN  IF h = NoHeader
        THEN Return2(FALSE, "Cabeçalho não encontrado. Preciso de 'Produto' e 'Quantidade'.", <<>>)
        ELSE IF m.produto = <<>> \/ m.qtd = <<>>
        THEN Return2(FALSE, EstoqueNoColumns, <<>>)
        ELSE Rows(estoque_rows(df_raw, columns_of(df_raw, h), m, h + 1))

(***************************************************************************)
(* parse_vendas_format                                                     *)
(***************************************************************************)
\* _RE_COD_PROD.match(s) for a stripped s: ^(\d+)\s*-\s*(.+)$
_RE_COD_PROD_match(s) ==
    LET d == DigitsEnd(s, 1)
        a == SpacesEnd(s, d)
        b == SpacesEnd(s, a + 1)
        rest == SubSeq(s, b, Len(s))
    IN  IF d > 1 /\ a <= Len(s) /\ s[a] = "-" /\ rest # <<>>
           /\ \A k \in 1..Len(rest) : rest[k] # "\n"
        THEN [ok |-> TRUE, g1 |-> SubSeq(s, 1, d - 1), g2 |-> rest]
        ELSE [ok |-> FALSE, g1 |-> <<>>, g2 |-> <<>>]

\* for c in df.columns: the if/elif chain over the five columns
RECURSIVE vendas_cols_from(_, _, _)
vendas_cols_from(cols, i, m) ==
    IF i > Len(cols) THEN m
    ELSE LET c == cols[i]
             cu == strip(upper(c))
         IN  vendas_cols_from(cols, i + 1,
                 IF Contains(cu, <<"G", "R", "U", "P", "O">>) /\ ~HasColumn(m.grupo) THEN [m EXCEPT !.grupo = <<c>>]
                 ELSE IF cu = <<"P", "R", "O", "D", "U", "T", "O">> /\ ~HasColumn(m.produto) THEN [m EXCEPT !.produto = <<c>>]
                 ELSE IF Contains(cu, <<"V", "E", "N", "D", "I", "D", "A">>) /\ ~HasColumn(m.qtd_vendida)
                      THEN [m EXCEPT !.qtd_vendida = <<c>>]
                 ELSE IF Contains(cu, <<"E", "S", "T", "O", "Q", "U", "E">>) /\ ~HasColumn(m.qtd_estoque)
                      THEN [m EXCEPT !.qtd_estoque = <<c>>]
                 ELSE IF (Contains(cu, <<"O", "B", "S">>) \/ Contains(cu, <<"N", "O", "T", "A">>) \/ Contains(cu, <<"A", "N", "O", "T", "A">>)) /\ ~HasColumn(m.nota)
                      THEN [m EXCEPT !.nota = <<c>>]
                 ELSE m)

\* if not col_nota: the first column with CUSTO in its name
RECURSIVE custo_column_from(_, _)
custo_column_from(cols, j) ==
    IF j > Len(cols) THEN <<>>
    ELSE IF Contains(strip(upper(cols[j])), <<"C", "U", "S", "T", "O">>) THEN <<cols[j]>>
    ELSE custo_column_from(cols, j + 1)

vendas_cols(cols) ==
    LET m == vendas_cols_from(cols, 1, [grupo |-> <<>>, produto |-> <<>>, qtd_vendida |-> <<>>, qtd_estoque |-> <<>>, nota |-> <<>>])
    IN  IF HasColumn(m.nota) THEN m ELSE [m EXCEPT !.nota = custo_column_from(cols, 1)]

\* try: val = row.get(col); if pd.notna(val): q = int(float(val))
\* except (ValueError, TypeError): pass -- the quantity stays 0
vendas_qtd(row, cols, role) ==
    IF ~HasColumn(role) THEN [exc |-> "none", val |-> 0]
    ELSE LET val == row_get(row, cols, role[1])
             q == int_float(val)
         IN  IF isna(val) \/ q.exc \in CaughtInRowLoop THEN [exc |-> "none", val |-> 0]
             ELSE q

\* current_grupo after the group cell of the row has been looked at
next_grupo(row, cols, m, current_grupo) ==
    IF ~HasColumn(m.grupo) THEN current_grupo
    ELSE LET g == strip(str(row_get(row, cols, m.grupo[1])))
         IN  IF g # <<>> /\ upper(g) \notin NullTexts THEN g ELSE current_grupo

\* One pass of the loop over df.iterrows() below the group cell: a record,
\* a zeroed-out row, nothing, or an exception that leaves the loop
vendas_record(row, cols, m, current_grupo) ==
    LET raw_prod == strip(str(row_get(row, cols, m.produto[1])))
        cp == _RE_COD_PROD_match(raw_prod)
        codigo == IF cp.ok THEN strip(cp.g1) ELSE auto_code(raw_prod)
        produto == IF cp.ok THEN strip(cp.g2) ELSE raw_prod
        qs == vendas_qtd(row, cols, m.qtd_estoque)
        qv == vendas_qtd(row, cols, m.qtd_vendida)
        cell == IF HasColumn(m.nota) THEN str(row_get(row, cols, m.nota[1])) ELSE <<>>
        grupo == normalize_grupo(current_grupo)
        Record(rec) ==
            CASE rec.emitted = "raised" -> [emitted |-> "raised", exc |-> ValueError]
              [] rec.emitted = "none" -> NoRecord
              [] rec.emitted = "zerado" ->
                   [codigo |-> codigo, produto |-> produto, grupo |-> grupo] @@ rec
              [] rec.emitted = "record" ->
                   [codigo |-> codigo, produto |-> produto,
                    categoria |-> IF grupo \in {OUTROS, <<>>}
                                  THEN classify_product(produto) ELSE grupo] @@ rec
    IN  IF raw_prod = <<>> \/ upper(raw_prod) \in {<<"N", "A", "N">>, <<"N", "O", "N", "E">>, <<"R", "O", "L", "L", "U", "P">>} THEN NoRecord
        ELSE IF qs.exc # "none" THEN [emitted |-> "raised", exc |-> qs.exc]
        ELSE IF qv.exc # "none" THEN [emitted |-> "raised", exc |-> qv.exc]
        ELSE Record(vendas_row(qs.val, qv.val, cell))

\* The loop over the rows below the header, from row r on
RECURSIVE vendas_rows(_, _, _, _, _)
vendas_rows(df_raw, cols, m, r, current_grupo) ==
    IF r > Len(df_raw) THEN [exc |-> "none", records |-> <<>>, zerados |-> <<>>]
    ELSE LET g == next_grupo(df_raw[r], cols, m, current_grupo)
             Rest(rec, rest) ==
                 IF rest.exc # "none" THEN rest
                 ELSE [exc |-> "none",
                       records |-> (IF rec.emitted = "record" THEN <<rec>> ELSE <<>>)
                                   \o rest.records,
                       zerados |-> (IF rec.emitted = "zerado" THEN <<rec>> ELSE <<>>)
                                   \o rest.zerados]
             Row(rec) ==
                 IF rec.emitted = "raised"
                 THEN [exc |-> rec.exc, records |-> <<>>, zerados |-> <<>>]
                 ELSE Rest(rec, vendas_rows(df_raw, cols, m, r + 1, g))
         IN  Row(vendas_record(df_raw[r], cols, m, g))

VendasNoRows == "Nenhum dado válido na planilha de vendas."

parse_vendas_format(df_raw) ==
    LET h == _find_header(df_raw, "vendas")
        cols == columns_of(df_raw, h)
        m == vendas_cols(cols)
        Rows(loop) ==
            IF loop.exc # "none" THEN Raise(loop.exc)
            ELSE IF loop.records # <<>>
            THEN Return3(TRUE, "", loop.records, loop.zerados)
            ELSE Return3(FALSE, VendasNoRows, <<>>, <<>>)
    IN  IF h = NoHeader
        THEN Return2(FALSE, "Cabeçalho não encontrado no formato vendas.", <<>>)
        ELSE IF ~HasColumn(m.produto)
        THEN Return2(FALSE, "Coluna 'PRODUTO' não encontrada. Colunas: ...", <<>>)
        ELSE IF ~HasColumn(m.qtd_estoque) /\ ~HasColumn(m.qtd_vendida)
        THEN Return2(FALSE, "Nenhuma coluna de quantidade encontrada.", <<>>)
        ELSE Rows(vendas_rows(df_raw, cols, m, h + 1, OUTROS))

(***************************************************************************)
(* read_excel_to_records, from the DataFrame on                            *)
(***************************************************************************)
ErroAoLer == "Erro ao ler arquivo: ..."

FormatoNaoReconhecido == "Formato não reconhecido."

\* ok, result = f(df_raw): unpacking a tuple of another length raises ValueError
Unpack(r, n) == IF r.kind = "return" /\ r.arity # n THEN Raise(ValueError) ELSE r

\* The second and third argument of Tried are looked at only where the code
\* makes the call: the sales parse only after the inventory parse has failed
records_of_frame(df_raw) ==
    LET fmt == detect_format(df_raw)
        Tried(e, v) ==
            IF e.kind = "raise" THEN e
            ELSE IF fmt = "estoque" \/ e.ok
            THEN Return3(e.ok, e.message, e.records, <<>>)
            ELSE IF v.kind = "raise" THEN v
            ELSE IF v.ok THEN v
            ELSE Return3(FALSE, FormatoNaoReconhecido, <<>>, <<>>)
    IN  IF fmt = "vendas" THEN parse_vendas_format(df_raw)
        ELSE Tried(Unpack(parse_estoque_format(df_raw), 2),
                   Unpack(parse_vendas_format(df_raw), 3))

\* readable: whether pd.read_excel gives a DataFrame or raises
read_excel_to_records(readable, df_raw) ==
    IF ~readable THEN Return3(FALSE, ErroAoLer, <<>>, <<>>) ELSE records_of_frame(df_raw)

(***************************************************************************)
(* Inputs: uploaded sheets of four columns.  A sheet is some blank rows, a *)
(* header or marker row, and data rows below it; the families vary the     *)
(* position of the header, the rows, and the names of the columns.         *)
(***************************************************************************)
\* Header rows of an inventory sheet and of a sales sheet
HeaderEstoque == <<T(<<"P", "r", "o", "d", "u", "t", "o">>), T(<<"Q", "u", "a", "n", "t", "i", "d", "a", "d", "e">>), T(<<"O", "b", "s">>), T(<<"C", "ó", "d", "i", "g", "o">>)>>

HeaderVendas ==
    <<T(<<"G", "r", "u", "p", "o", " ", "d", "e", " ", "P", "r", "o", "d", "u", "t", "o">>), T(<<"P", "r", "o", "d", "u", "t", "o">>), T(<<"Q", "t", "d", "d", " ", "-", " ", "V", "e", "n", "d", "i", "d", "a">>), T(<<"Q", "t", "d", "d", " ", "E", "s", "t", "o", "q", "u", "e">>)>>

\* The most data rows of a sheet whose rows vary
MaxRows == 2

\* The most blank rows above the header
MaxLead == 15

\* The sheets: families that vary the data rows, the place of the header, the
\* order of marker rows, the names of the columns and the length of the sample
Sheets ==
    LET BlankRow == <<Blank, Blank, Blank, Blank>>

        HeaderBoth == <<T(<<"P", "r", "o", "d", "u", "t", "o">>), T(<<"Q", "u", "a", "n", "t", "i", "d", "a", "d", "e">>), T(<<"O", "b", "s">>), T(<<"Q", "t", "d", "d", " ", "E", "s", "t", "o", "q", "u", "e">>)>>

        TitleVendas == <<T(<<"V", "e", "n", "d", "a", "s", " ", "p", "o", "r", " ", "g", "r", "u", "p", "o", " ", "d", "e", " ", "p", "r", "o", "d", "u", "t", "o">>), Blank, Blank, Blank>>

        \* Data rows under HeaderEstoque: product, quantity, note, code
        EstoqueRows ==
            { <<T(<<"A", "d", "u", "b", "o", " ", "F", "o", "l", "i", "a", "r", " ", "A", "d", "j", "u", "v", "a", "n", "t", "e", " ", "M", "a", "x">>), T(<<"1", "5", ".", "0">>), T(<<"f", "a", "l", "t", "a", " ", "5">>), Blank>>,
              <<T(<<"H", "E", "R", "B", "I", "C", "I", "D", "A", " ", "R", "O", "U", "N", "D", "U", "P">>), Num(200), Blank, T(<<"1", "2", "3">>)>>,
              <<T(<<"S", "e", "m", "e", "n", "t", "e", " ", "M", "i", "l", "h", "o">>), T(<<"0">>), T(<<"s", "o", "b", "r", "a", " ", "2">>), Blank>>,
              <<T(<<"T", "o", "t", "a", "l">>), Num(350), Blank, Blank>>,
              <<Blank, Num(50), Blank, T(<<"9">>)>>,
              <<T(<<"Ó", "l", "e", "o", " ", "M", "i", "n", "e", "r", "a", "l">>), Blank, T(<<"a", "v", "a", "r", "i", "a", "d", "o">>), Blank>>,
              <<T(<<"C", "a", "l", "c", "á", "r", "i", "o">>), T(<<"a", "b", "c">>), Blank, Blank>>,
              <<T(<<"V", "a", "c", "i", "n", "a">>), T(<<"i", "n", "f">>), Blank, Blank>>,
              <<T(<<"F", "u", "n", "g", "i", "c", "i", "d", "a">>), Num(-30), Blank, Blank>>,
              <<T(<<"I", "n", "s", "e", "t", "i", "c", "i", "d", "a">>), T(<<"2", ",", "5">>), Blank, Blank>>,
              <<T(<<"A", "d", "u", "b", "o", " ", "Q", ".", " ", "2", "0", "-", "0", "5", "-", "2", "0">>), Num(7), Blank, Blank>>,
              <<T(<<" ", "E", "s", "p", "a", "l", "h", "a", "n", "t", "e", " ">>), T(<<" ", "1", ".", "5", "7", "e", "1", " ">>), T(<<"1", "2">>), T(<<"n", "a", "n">>)>>,
              <<T(<<"A", "d", "u", "b", "o", " ", "F", "o", "l", "i", "a", "r", " ", "S", "u", "p", "e", "r", " ", "C", "o", "n", "c", "e", "n", "t", "r", "a", "d", "o", " ", "A">>), Num(10), Blank, Blank>>,
              <<T(<<"a", "d", "u", "b", "o", "-", "f", "o", "l", "i", "a", "r", " ", "s", "u", "p", "e", "r", " ", "c", "o", "n", "c", ".", " ", "B">>), T(<<"3">>), T(<<"f", " ", "1">>), Blank>>,
              <<T(<<"F", "u", "n", "g", "i", "c", "i", "d", "a", " ", "F", "o", "r", "t", "e">>), Num(30), T(<<"f", "a", "l", "t", "a", " ", "5">>), Blank>> }

        \* Data rows under HeaderVendas: group, product, sold, stock
        VendasRows ==
            { <<T(<<"H", "e", "r", "b", "i", "c", "i", "d", "a", "s">>), T(<<"1", "2", "3", " ", "-", " ", "R", "O", "U", "N", "D", "U", "P">>), Num(20), Num(100)>>,
              <<Blank, T(<<"G", "l", "i", "f", "o", "s", "a", "t", "o", " ", "N", "o", "r", "t", "o", "x">>), Num(30), Num(0)>>,
              <<Blank, T(<<"S", "e", "m", "e", "n", "t", "e", " ", "S", "o", "j", "a">>), Num(0), Num(0)>>,
              <<T(<<"M", "e", "d", "i", "c", "a", "m", "e", "n", "t", "o", "s", " ", "V", "e", "t", "e", "r", "i", "n", "á", "r", "i", "o", "s">>), T(<<"I", "v", "e", "r", "m", "e", "c", "t", "i", "n", "a">>), T(<<"2">>), T(<<"a", "b", "c">>)>>,
              <<Blank, T(<<"R", "o", "l", "l", "u", "p">>), Num(10), Num(10)>>,
              <<Blank, T(<<"V", "a", "c", "i", "n", "a", " ", "A", "f", "t", "o", "s", "a">>), Blank, T(<<"i", "n", "f">>)>>,
              <<T(<<"o", "u", "t", "r", "o", "s">>), T(<<"A", "d", "u", "b", "o", " ", "F", "o", "l", "i", "a", "r", " ", "A", "d", "j", "u", "v", "a", "n", "t", "e">>), Num(0), Num(57)>>,
              <<T(<<"S", "e", "m", "e", "n", "t", "e", "s">>), T(<<"4", "5", "-", "M", "i", "l", "h", "o">>), Num(10), Num(-20)>>,
              <<Blank, T(<<"S", "e", "m", "e", "n", "t", "e", " ", "S", "o", "j", "a", " ", "R", "R">>), Num(10), Num(40)>> }

        Bodies(rows) == UNION {[1..n -> rows] : n \in 0..MaxRows}

        \* Sheets that vary the data rows
        RowSheets ==
            {<<HeaderEstoque>> \o b : b \in Bodies(EstoqueRows)}
            \cup {<<HeaderVendas>> \o b : b \in Bodies(VendasRows)}

        \* Sheets that vary the place of the header: blank rows, then a header or
        \* marker row with at most one data row
        LeadSheets ==
            LET NoValidEstoqueRow == <<T(<<"S", "e", "m", "e", "n", "t", "e", " ", "M", "i", "l", "h", "o">>), T(<<"0">>), T(<<"s", "o", "b", "r", "a", " ", "2">>), Blank>>
                ValidEstoqueRow == <<T(<<"H", "E", "R", "B", "I", "C", "I", "D", "A", " ", "R", "O", "U", "N", "D", "U", "P">>), Num(200), Blank, T(<<"1", "2", "3">>)>>
                RaisingEstoqueRow == <<T(<<"V", "a", "c", "i", "n", "a">>), T(<<"i", "n", "f">>), Blank, Blank>>
                ValidVendasRow == <<T(<<"H", "e", "r", "b", "i", "c", "i", "d", "a", "s">>), T(<<"1", "2", "3", " ", "-", " ", "R", "O", "U", "N", "D", "U", "P">>), Num(20), Num(100)>>
                ZeradoVendasRow == <<Blank, T(<<"G", "l", "i", "f", "o", "s", "a", "t", "o", " ", "N", "o", "r", "t", "o", "x">>), Num(30), Num(0)>>
                NoValidVendasRow == <<Blank, T(<<"S", "e", "m", "e", "n", "t", "e", " ", "S", "o", "j", "a">>), Num(0), Num(0)>>
                HeaderNone == <<T(<<"N", "o", "m", "e">>), T(<<"V", "a", "l", "o", "r">>), Blank, Blank>>
                HeaderVendasNoQtd == <<T(<<"G", "r", "u", "p", "o">>), T(<<"P", "r", "o", "d", "u", "t", "o">>), T(<<"Q", "t", "d", "d">>), Blank>>
                Layouts4 ==
                    { <<HeaderEstoque>>, <<HeaderEstoque, NoValidEstoqueRow>>, <<HeaderEstoque, ValidEstoqueRow>>,
                      <<HeaderEstoque, RaisingEstoqueRow>>,
                      <<HeaderVendas, NoValidVendasRow>>, <<HeaderVendas, ValidVendasRow>>,
                      <<HeaderVendas, ZeradoVendasRow>>,
                      <<HeaderBoth, NoValidEstoqueRow>>, <<HeaderBoth, ValidEstoqueRow>>,
                      <<HeaderNone, ValidEstoqueRow>>, <<TitleVendas>>, <<TitleVendas, HeaderEstoque, ValidEstoqueRow>>,
                      <<HeaderVendasNoQtd, ValidVendasRow>> }
            IN  {[i \in 1..k |-> BlankRow] \o rows : k \in 0..MaxLead, rows \in Layouts4}

        \* Sheets with two marker rows, for the order in which the rows are looked at
        MarkerSheets ==
            LET MarkerRows == {HeaderEstoque, HeaderVendas, HeaderBoth, TitleVendas}
            IN  { [i \in 1..(MaxLead + 1) |-> IF i = p1 THEN a ELSE IF i = p2 THEN b ELSE BlankRow] :
                    p1 \in 1..(MaxLead + 1), p2 \in 1..(MaxLead + 1), a \in MarkerRows, b \in MarkerRows }

        \* Sheets that vary the names of the columns of an inventory sheet
        ColumnSheets ==
            LET ColumnCells ==
                    { T(<<"P", "r", "o", "d", "u", "t", "o">>), T(<<" ", "q", "u", "a", "n", "t", "i", "d", "a", "d", "e", " ">>), T(<<"Q", "t", "d">>), T(<<"C", "ó", "d", "i", "g", "o">>), T(<<"O", "b", "s">>),
                    T(<<"Q", "u", "a", "n", "t", "i", "d", "a", "d", "e", " ", "O", "b", "s">>), T(<<"D", "i", "f", "e", "r", "e", "n", "ç", "a">>), T(<<"P", "r", "e", "ç", "o">>), T(<<"P", "R", "O", "D", "U", "T", "O">>), Blank }
                ColumnHeaders ==
                    { h \in [1..4 -> ColumnCells] :
                        \A i \in 1..4 : \A j \in 1..4 : i # j => strip(str(h[i])) # strip(str(h[j])) }
                ColumnBodies ==
                    { << <<T(<<"S", "e", "m", "e", "n", "t", "e">>), Num(50), T(<<"f", "a", "l", "t", "a", " ", "1">>), T(<<"7", "7">>)>> >>,
                    << <<T(<<"S", "e", "m", "e", "n", "t", "e">>), Num(50), Num(30), Blank>>,
                       <<T(<<"V", "a", "c", "i", "n", "a">>), T(<<"4">>), T(<<"n", "a", "n">>), T(<<"a", " ", "1">>)>> >> }
            IN  {<<h>> \o b : h \in ColumnHeaders, b \in ColumnBodies}

        \* Sheets without a note column whose texts come after many numbers
        LongSheets ==
            LET HeaderNoNota == <<T(<<"P", "r", "o", "d", "u", "t", "o">>), T(<<"Q", "t", "d">>), T(<<"P", "r", "e", "ç", "o">>), T(<<"L", "o", "t", "e">>)>>
                FillerRows ==
                    { <<T(<<"S", "e", "m", "e", "n", "t", "e">>), Num(50), Num(10), Num(10)>>,
                        <<T(<<"S", "e", "m", "e", "n", "t", "e">>), Num(50), Blank, Num(10)>> }
                LateTextRows ==
                    { <<T(<<"S", "e", "m", "e", "n", "t", "e">>), Num(50), T(<<"f", "a", "l", "t", "a", " ", "2">>), T(<<"s", "o", "b", "r", "a", " ", "3">>)>>,
                          <<T(<<"S", "e", "m", "e", "n", "t", "e">>), Num(50), Num(10), T(<<"s", "o", "b", "r", "a", " ", "3">>)>> }
            IN  { <<HeaderNoNota>> \o [i \in 1..n |-> f] \o <<t>> :
                    n \in (SampleSize - 2)..(SampleSize + 1), f \in FillerRows, t \in LateTextRows }
    IN  RowSheets \cup LeadSheets \cup MarkerSheets \cup ColumnSheets \cup LongSheets

(***************************************************************************)
(* The ingestion of one uploaded sheet                                     *)
(***************************************************************************)
InitSheet ==
    /\ sheet \in Sheets
    /\ outcome = NoOutcome
    /\ pc = "sheet"
    /\ nota = <<>>
    /\ qtd_sistema = 0
    /\ result = NoResult
    /\ record = NoRecord
    /\ label = <<>>
    /\ category = <<>>
    /\ attempt = 0
    /\ responses = <<>>
    /\ reply = [kind |-> "none"]
    /\ db = <<>>
    /\ durable = <<>>
    /\ call = [name |-> "none"]

DetectFormat ==
    /\ pc = "sheet"
    /\ outcome' = [kind |-> "format", format |-> detect_format(sheet)]
    /\ pc' = "detect_format"
    /\ UNCHANGED <<sheet, annotVars, labelVars, clientVars, dbVars>>

ParseEstoqueFormat ==
    /\ pc = "sheet"
    /\ outcome' = parse_estoque_format(sheet)
    /\ pc' = "parse_estoque_format"
    /\ UNCHANGED <<sheet, annotVars, labelVars, clientVars, dbVars>>

ParseVendasFormat ==
    /\ pc = "sheet"
    /\ outcome' = parse_vendas_format(sheet)
    /\ pc' = "parse_vendas_format"
    /\ UNCHANGED <<sheet, annotVars, labelVars, clientVars, dbVars>>

ReadExcelToRecords ==
    /\ pc = "sheet"
    /\ \E readable \in BOOLEAN : outcome' = read_excel_to_records(readable, sheet)
    /\ pc' = "read_excel_to_records"
    /\ UNCHANGED <<sheet, annotVars, labelVars, clientVars, dbVars>>

NextSheet == DetectFormat \/ ParseEstoqueFormat \/ ParseVendasFormat \/ ReadExcelToRecords

SpecSheet == InitSheet /\ [][NextSheet]_vars

(***************************************************************************)
(* Inputs: product names and group labels                                  *)
(***************************************************************************)
\* The most words of a product name
MaxWords == 2

GrupoKeys == {_GRUPO_MAP[i][1] : i \in DOMAIN _GRUPO_MAP}

\* Product names of at most MaxWords words; the labels of the table as
\* written, in lower case and with whitespace around them, and labels the
\* table does not have
Labels ==
    LET ProductWords ==
            { <<"H", "E", "R", "B", "I", "C", "I", "D", "A">>, <<"A", "d", "u", "b", "o", " ", "F", "o", "l", "i", "a", "r">>, <<"F", "u", "n", "g", "i", "c", "i", "d", "a">>, <<"i", "n", "s", "e", "t", "i", "c", "i", "d", "a">>, <<"N", "E", "M", "A", "T", "I", "C", "I", "D", "A">>, <<"A", "D", "U", "B", "O">>, <<"F", "O", "L", "I", "A", "R">>,
            <<"A", "d", "u", "b", "o", " ", "Q", ".">>, <<"a", "d", "u", "b", "o", " ", "c", "o", "r", "r", "e", "t", "i", "v", "o">>, <<"C", "A", "L", "C", "A", "R", "I", "O">>, <<"c", "a", "l", "c", "á", "r", "i", "o">>, <<"O", "L", "E", "O">>, <<"Ó", "l", "e", "o">>,
            <<"S", "e", "m", "e", "n", "t", "e">>, <<"A", "D", "J", "U", "V", "A", "N", "T", "E">>, <<"e", "s", "p", "a", "l", "h", "a", "n", "t", "e">>, <<"M", "e", "d", "i", "c", "a", "m", "e", "n", "t", "o">>, <<"V", "E", "R", "M", "I", "F", "U", "G", "O">>, <<"v", "e", "r", "m", "í", "f", "u", "g", "o">>,
            <<"V", "a", "c", "i", "n", "a">>, <<"A", "N", "T", "I", "B", "I", "O", "T", "I", "C", "O">>, <<"a", "n", "t", "i", "b", "i", "ó", "t", "i", "c", "o">>, <<"M", "i", "l", "h", "o">>, <<"R", "o", "u", "n", "d", "u", "p", " ", "4", "8", "0">>, <<"Q", "U", "I", "M", "I", "C", "O">> }
        ProductNames == {Join(ws, <<" ">>) : ws \in UNION {[1..n -> ProductWords] : n \in 1..MaxWords}}
        GrupoValues == {_GRUPO_MAP[i][2] : i \in DOMAIN _GRUPO_MAP}
        GroupLabels ==
            GrupoKeys \cup GrupoValues
            \cup {lower(k) : k \in GrupoKeys \cup GrupoValues}
            \cup {<<" ">> \o k \o <<"\t", " ">> : k \in GrupoKeys}
            \cup {OUTROS, <<>>, <<" ">>, <<"F", "e", "r", "t", "i", "l", "i", "z", "a", "n", "t", "e", "s">>, <<" ", "n", "a", "n", " ">>}
    IN  ProductNames \cup GroupLabels

(***************************************************************************)
(* The classification of one name or label                                 *)
(***************************************************************************)
InitLabels ==
    /\ label \in Labels
    /\ category = <<>>
    /\ pc = "label"
    /\ nota = <<>>
    /\ qtd_sistema = 0
    /\ result = NoResult
    /\ record = NoRecord
    /\ sheet = <<>>
    /\ outcome = NoOutcome
    /\ attempt = 0
    /\ responses = <<>>
    /\ reply = [kind |-> "none"]
    /\ db = <<>>
    /\ durable = <<>>
    /\ call = [name |-> "none"]

ClassifyProduct ==
    /\ pc = "label"
    /\ category' = classify_product(label)
    /\ pc' = "classify_product"
    /\ UNCHANGED <<label, annotVars, sheetVars, clientVars, dbVars>>

NormalizeGrupo ==
    /\ pc = "label"
    /\ category' = normalize_grupo(label)
    /\ pc' = "normalize_grupo"
    /\ UNCHANGED <<label, annotVars, sheetVars, clientVars, dbVars>>

NextLabels == ClassifyProduct \/ NormalizeGrupo

SpecLabels == InitLabels /\ [][NextLabels]_vars

(***************************************************************************)
(* AgroFitClient._get: one GET with retries                                *)
(***************************************************************************)
_MAX_RETRIES == 3

\* One iteration of the retry loop: what the request of this attempt does
\* with the answer resp.  A 200 whose body is not JSON makes resp.json()
\* raise; json_error_is_caught says whether the installed requests library
\* raises it as a RequestException (caught by the except clause) or as a
\* plain ValueError (which leaves the function).
_get_attempt_retry_every_status(attempt_no, resp, json_error_is_caught) ==
    LET Retry == IF attempt_no < _MAX_RETRIES THEN [kind |-> "continue"]
                 ELSE [kind |-> "return", value |-> "None"]
    IN  IF resp.failed THEN Retry
        ELSE IF resp.status_code = 200 /\ resp.body # "not json"
             THEN [kind |-> "return", value |-> resp.body]
        ELSE IF resp.status_code = 200 /\ ~json_error_is_caught
             THEN [kind |-> "raise", value |-> "JSONDecodeError"]
        ELSE IF resp.status_code = 401 THEN [kind |-> "raise", value |-> ValueError]
        ELSE Retry

_get_attempt(attempt_no, resp, json_error_is_caught) ==
    LET Retry == IF attempt_no < _MAX_RETRIES THEN [kind |-> "continue"]
                 ELSE [kind |-> "return", value |-> "None"]
    IN  IF resp.failed THEN Retry
        ELSE IF resp.status_code = 200
             THEN IF resp.body # "not json" THEN [kind |-> "return", value |-> resp.body]
                  ELSE IF json_error_is_caught THEN Retry
                  ELSE [kind |-> "raise", value |-> "JSONDecodeError"]
        ELSE IF resp.status_code = 401 THEN [kind |-> "raise", value |-> ValueError]
        ELSE IF resp.status_code = 429 THEN Retry
        ELSE [kind |-> "return", value |-> "None"]

InitGet ==
    /\ attempt = 1
    /\ responses = <<>>
    /\ reply = [kind |-> "continue"]
    /\ pc = "_get"
    /\ nota = <<>>
    /\ qtd_sistema = 0
    /\ result = NoResult
    /\ record = NoRecord
    /\ sheet = <<>>
    /\ outcome = NoOutcome
    /\ label = <<>>
    /\ category = <<>>
    /\ db = <<>>
    /\ durable = <<>>
    /\ call = [name |-> "none"]

\* One pass of the loop: the request is sent and answered by a response with
\* a status and a body, or fails with a RequestException
Get ==
    /\ pc = "_get"
    /\ reply.kind = "continue"
    /\ LET Answers ==
               [failed : {FALSE}, status_code : {200}, body : {"list", "dict", "not json"}]
               \cup [failed : {FALSE}, status_code : {401, 404, 429, 500, 503}, body : {""}]
               \cup [failed : {TRUE}, status_code : {0}, body : {""}]
       IN  \E resp \in Answers, json_error_is_caught \in BOOLEAN :
              /\ responses' = Append(responses, resp)
              /\ reply' = _get_attempt(attempt, resp, json_error_is_caught)
              /\ attempt' = IF reply'.kind = "continue" THEN attempt + 1 ELSE attempt
    /\ UNCHANGED <<pc, annotVars, sheetVars, labelVars, dbVars>>

SpecGet == InitGet /\ [][Get]_vars

(***************************************************************************)
(* The database: the writes of app_turso.py and agrofit_client.py          *)
(*                                                                         *)
(* Every function takes the one connection that _get_connection caches.    *)
(* A write opens a transaction on it, conn.commit() makes the transaction  *)
(* durable, and no function rolls back: what a failed call wrote stays in  *)
(* the open transaction.  The time of a call is its number.  The sync with *)
(* the remote replica (sync_db) does not change the local tables.          *)
(***************************************************************************)
MaxCalls == 2

MaxRecords == 2

CATEGORIAS_EXCLUIDAS_REPOSICAO ==
    { <<"H", "E", "R", "B", "I", "C", "I", "D", "A", "S">>, <<"F", "U", "N", "G", "I", "C", "I", "D", "A", "S">>, <<"I", "N", "S", "E", "T", "I", "C", "I", "D", "A", "S">>, <<"N", "E", "M", "A", "T", "I", "C", "I", "D", "A", "S">>, <<"Ó", "L", "E", "O", "S">>,
      <<"A", "D", "U", "B", "O", "S", " ", "F", "O", "L", "I", "A", "R", "E", "S">>, <<"A", "D", "U", "B", "O", "S", " ", "Q", "U", "Í", "M", "I", "C", "O", "S">>, <<"A", "D", "U", "B", "O", "S", " ", "C", "O", "R", "R", "E", "T", "I", "V", "O", "S">>,
      <<"A", "D", "J", "U", "V", "A", "N", "T", "E", "S">>, <<"A", "D", "J", "U", "V", "A", "N", "T", "E", "S", "/", "E", "S", "P", "A", "L", "H", "A", "N", "T", "E", "S", " ", "A", "D", "E", "S", "I", "V", "O">>, <<"S", "U", "P", "L", "E", "M", "E", "N", "T", "O", " ", "M", "I", "N", "E", "R", "A", "L">>,
      <<"S", "E", "M", "E", "N", "T", "E", "S">>,
      <<"M", "E", "D", "I", "C", "A", "M", "E", "N", "T", "O", "S">>, <<"M", "E", "D", "I", "C", "A", "M", "E", "N", "T", "O", "S", " ", "V", "E", "T", "E", "R", "I", "N", "Á", "R", "I", "O", "S">>, <<"M", "E", "D", "I", "C", "A", "M", "E", "N", "T", "O", "S", " ", "V", "E", "T", "E", "R", "I", "N", "A", "R", "I", "O", "S">>,
      <<"V", "A", "C", "I", "N", "A", " ", "A", "F", "T", "O", "S", "A">>, <<"V", "A", "C", "I", "N", "A", "S", " ", "D", "I", "V", "E", "R", "S", "A", "S", "/", "S", "O", "R", "O", "S">>,
      <<"A", "N", "T", "I", "B", "I", "O", "T", "I", "C", "O", "S", "/", "A", "N", "T", "I", "-", "I", "N", "F", "L", "A", "M", "A", "T", "O", "R", "I", "O">>,
      <<"A", "N", "E", "S", "T", "E", "S", "I", "C", "O", "/", "A", "N", "A", "L", "G", "E", "S", "I", "C", "O", "/", "D", "I", "U", "R", "E", "T", "I", "C">>,
      <<"A", "N", "T", "I", "T", "O", "X", "I", "C", "O", "S">>,
      <<"V", "E", "R", "M", "I", "F", "U", "G", "O", "S">>,
      <<"M", "O", "S", "Q", "U", "I", "C", "I", "D", "A", "/", "C", "A", "R", "R", "A", "P", "A", "T", "I", "C", "I", "D", "A", "/", "B", "E", "R", "N", "I">>,
      <<"U", "N", "G", "U", "E", "N", "T", "O", "S", "/", "P", "O", "M", "A", "D", "A", "S">>,
      <<"H", "O", "M", "E", "O", "P", "A", "T", "I", "C", "O">>,
      <<"H", "O", "R", "M", "O", "N", "I", "O", "S", " ", "L", "E", "I", "T", "E", "I", "R", "O", "S">>,
      <<"T", "O", "N", "I", "C", "O", " ", "M", "I", "N", "E", "R", "A", "L", "/", "V", "I", "T", "A", "M", "I", "N", "A", "S">>,
      <<"R", "E", "P", "R", "O", "D", "U", "C", "A", "O", " ", "A", "N", "I", "M", "A", "L">>,
      <<"R", "E", "P", "R", "O", "D", "U", "T", "O", "R", "E", "S">>,
      <<"I", "D", "E", "N", "T", "I", "F", "I", "C", "A", "C", "A", "O", " ", "A", "N", "I", "M", "A", "L">>,
      <<"I", "N", "O", "C", "U", "L", "A", "N", "T", "E", "S", " ", "P", "/", " ", "S", "I", "L", "A", "G", "E", "M">>,
      <<"D", "I", "E", "T", "A", " ", "A", "N", "I", "M", "A", "L">>,
      <<"R", "A", "T", "I", "C", "I", "D", "A", "S">> }

\* The uploads: the records and the zeroed products a parsed sheet gives.  A
\* record of the inventory layout has no qtd_vendida.
Uploads ==
    LET Enxada ==
            [codigo |-> "A", produto |-> "Enxada", categoria |-> <<"F", "E", "R", "R", "A", "G", "E", "N", "S">>,
             qtd_sistema |-> 10, qtd_fisica |-> 10, diferenca |-> 0,
             nota |-> "", status |-> "ok", qtd_vendida |-> 3]
        EnxadaCounted ==
            [codigo |-> "A", produto |-> "Enxada", categoria |-> <<"F", "E", "R", "R", "A", "G", "E", "N", "S">>,
             qtd_sistema |-> 8, qtd_fisica |-> 7, diferenca |-> -1,
             nota |-> "falta 1", status |-> "falta"]
        Roundup ==
            [codigo |-> "B", produto |-> "Roundup", categoria |-> <<"H", "E", "R", "B", "I", "C", "I", "D", "A", "S">>,
             qtd_sistema |-> 5, qtd_fisica |-> 5, diferenca |-> 0,
             nota |-> "", status |-> "ok", qtd_vendida |-> 2]
        Zeroed(c, p, g) ==
            [codigo |-> c, produto |-> p, grupo |-> g, qtd_vendida |-> 4, qtd_estoque |-> 0]
    IN  [records : UNION { [1..n -> {Enxada, EnxadaCounted, Roundup}] : n \in 0..MaxRecords },
         zerados : { <<>>, <<Zeroed("A", "Enxada", <<"F", "E", "R", "R", "A", "G", "E", "N", "S">>)>>,
                     <<Zeroed("B", "Roundup", <<"H", "E", "R", "B", "I", "C", "I", "D", "A", "S">>)>> }]

\* The rows _detectar_reposicao_batch inserts into reposicao_loja, whose
\* rows so far are reposicao_loja and whose last id given is last_id
_detectar_reposicao_batch_no_pending_check(records, reposicao_loja, last_id, now) ==
    LET RECURSIVE to_insert(_, _)
        to_insert(k, n) ==
            IF k > Len(records) THEN <<>>
            ELSE LET r == records[k]
                     qtd_v == IF "qtd_vendida" \in DOMAIN r THEN r.qtd_vendida ELSE 0
                 IN  IF qtd_v <= 0 THEN to_insert(k + 1, n)
                     ELSE IF upper(strip(r.categoria)) \in CATEGORIAS_EXCLUIDAS_REPOSICAO
                          THEN to_insert(k + 1, n)
                     ELSE <<[id |-> last_id + n + 1, codigo |-> r.codigo,
                             produto |-> r.produto, categoria |-> r.categoria,
                             qtd_vendida |-> qtd_v, criado_em |-> now,
                             reposto |-> 0, reposto_em |-> 0]>>
                          \o to_insert(k + 1, n + 1)
    IN  to_insert(1, 0)

_detectar_reposicao_batch(records, reposicao_loja, last_id, now) ==
    LET RECURSIVE to_insert(_, _, _)
        to_insert(k, pending, n) ==
            IF k > Len(records) THEN <<>>
            ELSE LET r == records[k]
                     qtd_v == IF "qtd_vendida" \in DOMAIN r THEN r.qtd_vendida ELSE 0
                 IN  IF qtd_v <= 0 THEN to_insert(k + 1, pending, n)
                     ELSE IF upper(strip(r.categoria)) \in CATEGORIAS_EXCLUIDAS_REPOSICAO
                          THEN to_insert(k + 1, pending, n)
                     ELSE IF r.codigo \in pending THEN to_insert(k + 1, pending, n)
                     ELSE <<[id |-> last_id + n + 1, codigo |-> r.codigo,
                             produto |-> r.produto, categoria |-> r.categoria,
                             qtd_vendida |-> qtd_v, criado_em |-> now,
                             reposto |-> 0, reposto_em |-> 0]>>
                          \o to_insert(k + 1, pending \cup {r.codigo}, n + 1)
    IN  to_insert(1, { reposicao_loja[i].codigo :
                          i \in { j \in 1..Len(reposicao_loja) : reposicao_loja[j].reposto = 0 } }, 0)

\* The table vendas_historico after save_vendas_historico, and whether the
\* call commits
save_vendas_historico_append_only(vendas_historico, records, zerados, is_mestre, now) ==
    LET rows == [k \in 1..Len(records) |->
                    [codigo |-> records[k].codigo, produto |-> records[k].produto,
                     grupo |-> records[k].categoria,
                     qtd_vendida |-> IF "qtd_vendida" \in DOMAIN records[k]
                                     THEN records[k].qtd_vendida ELSE 0,
                     qtd_estoque |-> records[k].qtd_sistema, data_upload |-> now]]
    IN  [table |-> vendas_historico \o rows, commit |-> rows # <<>>]

save_vendas_historico(vendas_historico, records, zerados, is_mestre, now) ==
    LET codigos_update == { records[k].codigo : k \in 1..Len(records) }
                          \cup { zerados[k].codigo : k \in 1..Len(zerados) }
        kept == IF is_mestre THEN <<>>
                ELSE SelectSeq(vendas_historico, LAMBDA row : row.codigo \notin codigos_update)
        rows == [k \in 1..Len(records) |->
                    [codigo |-> records[k].codigo, produto |-> records[k].produto,
                     grupo |-> records[k].categoria,
                     qtd_vendida |-> IF "qtd_vendida" \in DOMAIN records[k]
                                     THEN records[k].qtd_vendida ELSE 0,
                     qtd_estoque |-> records[k].qtd_sistema, data_upload |-> now]]
                \o [k \in 1..Len(zerados) |->
                       [codigo |-> zerados[k].codigo, produto |-> zerados[k].produto,
                        grupo |-> zerados[k].grupo, qtd_vendida |-> zerados[k].qtd_vendida,
                        qtd_estoque |-> 0, data_upload |-> now]]
    IN  [table |-> kept \o rows, commit |-> rows # <<>>]

\* The database after construction: the tables _get_connection creates,
\* empty, or the tables after a master upload at time 0 with a product to
\* restock, sales rows, and active ingredients of both origins
InitDb ==
    /\ db \in
          { [estoque_mestre |-> <<>>, historico_uploads |-> <<>>, reposicao_loja |-> <<>>,
             last_id |-> 0, vendas_historico |-> <<>>, principios_ativos |-> <<>>],
            [estoque_mestre |->
                [c \in {"A", "B"} |->
                    [produto |-> IF c = "A" THEN "Enxada" ELSE "Roundup",
                     categoria |-> IF c = "A" THEN <<"F", "E", "R", "R", "A", "G", "E", "N", "S">> ELSE <<"H", "E", "R", "B", "I", "C", "I", "D", "A", "S">>,
                     qtd_sistema |-> 6, qtd_fisica |-> 6, diferenca |-> 0, nota |-> "",
                     status |-> "ok", ultima_contagem |-> 0, criado_em |-> 0]],
             historico_uploads |->
                <<[data |-> 0, tipo |-> "MESTRE", total_produtos_lote |-> 2, novos |-> 2,
                   atualizados |-> 0, divergentes |-> 0]>>,
             reposicao_loja |->
                <<[id |-> 1, codigo |-> "A", produto |-> "Enxada", categoria |-> <<"F", "E", "R", "R", "A", "G", "E", "N", "S">>,
                   qtd_vendida |-> 1, criado_em |-> 0, reposto |-> 0, reposto_em |-> 0]>>,
             last_id |-> 1,
             vendas_historico |->
                <<[codigo |-> "A", produto |-> "Enxada", grupo |-> <<"F", "E", "R", "R", "A", "G", "E", "N", "S">>,
                   qtd_vendida |-> 1, qtd_estoque |-> 6, data_upload |-> 0],
                  [codigo |-> "B", produto |-> "Roundup", grupo |-> <<"H", "E", "R", "B", "I", "C", "I", "D", "A", "S">>,
                   qtd_vendida |-> 1, qtd_estoque |-> 6, data_upload |-> 0]>>,
             principios_ativos |->
                [key \in {<<"Roundup", "glifosato">>, <<"Enxada", "aco">>} |->
                    [categoria |-> <<"H", "E", "R", "B", "I", "C", "I", "D", "A", "S">>,
                     source |-> IF key[1] = "Roundup" THEN "agrofit" ELSE "excel"]]] }
    /\ durable = db
    /\ call = [no |-> 0, name |-> "none", records |-> <<>>, zerados |-> <<>>,
               is_mestre |-> FALSE, ok |-> TRUE, novos |-> 0, atualizados |-> 0]
    /\ pc = "db"
    /\ nota = <<>>
    /\ qtd_sistema = 0
    /\ result = NoResult
    /\ record = NoRecord
    /\ sheet = <<>>
    /\ outcome = NoOutcome
    /\ label = <<>>
    /\ category = <<>>
    /\ attempt = 0
    /\ responses = <<>>
    /\ reply = [kind |-> "none"]

\* upload_mestre.  The INSERT of a code the batch has already inserted
\* violates the primary key and ends the call in the except clause, with
\* the DELETE and, when executemany runs row by row, the rows before the
\* failing one left in the open transaction.
UploadMestre ==
    /\ pc = "db"
    /\ call.no < MaxCalls
    /\ \E u \in Uploads, rows_before_failure_stay \in BOOLEAN :
          LET records == u.records
              now == call.no + 1
              repeated == { k \in 1..Len(records) :
                               \E j \in 1..(k - 1) : records[j].codigo = records[k].codigo }
              inserted == IF repeated = {} THEN 1..Len(records)
                          ELSE IF rows_before_failure_stay
                               THEN { k \in 1..Len(records) : \A j \in repeated : k < j }
                          ELSE {}
              table == [c \in { records[k].codigo : k \in inserted } |->
                          LET r == records[CHOOSE k \in inserted : records[k].codigo = c]
                          IN  [produto |-> r.produto, categoria |-> r.categoria,
                               qtd_sistema |-> r.qtd_sistema, qtd_fisica |-> r.qtd_fisica,
                               diferenca |-> r.diferenca, nota |-> r.nota, status |-> r.status,
                               ultima_contagem |-> now, criado_em |-> now]]
              n_div == Cardinality({ k \in 1..Len(records) : records[k].status # "ok" })
          IN  /\ db' = IF repeated # {} THEN [db EXCEPT !.estoque_mestre = table]
                       ELSE [db EXCEPT !.estoque_mestre = table,
                                       !.historico_uploads =
                                           Append(@, [data |-> now, tipo |-> "MESTRE",
                                                      total_produtos_lote |-> Len(records),
                                                      novos |-> Len(records), atualizados |-> 0,
                                                      divergentes |-> n_div])]
              /\ durable' = IF repeated # {} THEN durable ELSE db'
              /\ call' = [no |-> now, name |-> "upload_mestre", records |-> records,
                          zerados |-> <<>>, is_mestre |-> TRUE, ok |-> repeated = {},
                          novos |-> Len(records), atualizados |-> 0]
    /\ UNCHANGED <<pc, annotVars, sheetVars, labelVars, clientVars>>

\* upload_parcial, with _detectar_reposicao_batch
UploadParcial ==
    /\ pc = "db"
    /\ call.no < MaxCalls
    /\ \E u \in Uploads, rows_before_failure_stay \in BOOLEAN :
          LET records == u.records
              zerados == u.zerados
              now == call.no + 1
              existing == DOMAIN db.estoque_mestre
              codigos_remover == { zerados[k].codigo : k \in 1..Len(zerados) } \cap existing
              update_data == { k \in 1..Len(records) : records[k].codigo \in existing }
              novos_data == { k \in 1..Len(records) : records[k].codigo \notin existing }
              \* the UPDATEs run in the order of the records: the last one stays
              updated == [c \in existing \ codigos_remover |->
                             LET ks == { k \in update_data : records[k].codigo = c }
                                 r == records[CHOOSE k \in ks : \A j \in ks : j <= k]
                             IN  IF ks = {} THEN db.estoque_mestre[c]
                                 ELSE [produto |-> r.produto, categoria |-> r.categoria,
                                       qtd_sistema |-> r.qtd_sistema,
                                       qtd_fisica |-> r.qtd_fisica,
                                       diferenca |-> r.diferenca, nota |-> r.nota,
                                       status |-> r.status, ultima_contagem |-> now,
                                       criado_em |-> db.estoque_mestre[c].criado_em]]
              repeated == { k \in novos_data :
                               \E j \in novos_data : j < k /\ records[j].codigo = records[k].codigo }
              inserted == IF repeated = {} THEN novos_data
                          ELSE IF rows_before_failure_stay
                               THEN { k \in novos_data : \A j \in repeated : k < j }
                          ELSE {}
              table == [c \in DOMAIN updated \cup { records[k].codigo : k \in inserted } |->
                          IF c \in DOMAIN updated THEN updated[c]
                          ELSE LET r == records[CHOOSE k \in inserted : records[k].codigo = c]
                               IN  [produto |-> r.produto, categoria |-> r.categoria,
                                    qtd_sistema |-> r.qtd_sistema,
                                    qtd_fisica |-> r.qtd_fisica,
                                    diferenca |-> r.diferenca, nota |-> r.nota,
                                    status |-> r.status, ultima_contagem |-> now,
                                    criado_em |-> now]]
              to_insert == _detectar_reposicao_batch(records, db.reposicao_loja, db.last_id, now)
              n_div == Cardinality({ k \in 1..Len(records) : records[k].status # "ok" })
          IN  /\ db' = IF repeated # {} THEN [db EXCEPT !.estoque_mestre = table]
                       ELSE [db EXCEPT !.estoque_mestre = table,
                                       !.reposicao_loja = @ \o to_insert,
                                       !.last_id = @ + Len(to_insert),
                                       !.historico_uploads =
                                           Append(@, [data |-> now, tipo |-> "PARCIAL",
                                                      total_produtos_lote |-> Len(records),
                                                      novos |-> Cardinality(novos_data),
                                                      atualizados |-> Cardinality(update_data),
                                                      divergentes |-> n_div])]
              /\ durable' = IF repeated # {} THEN durable ELSE db'
              /\ call' = [no |-> now, name |-> "upload_parcial", records |-> records,
                          zerados |-> zerados, is_mestre |-> FALSE, ok |-> repeated = {},
                          novos |-> Cardinality(novos_data),
                          atualizados |-> Cardinality(update_data)]
    /\ UNCHANGED <<pc, annotVars, sheetVars, labelVars, clientVars>>

\* marcar_reposto on an item of the list the page shows
MarcarReposto ==
    /\ pc = "db"
    /\ call.no < MaxCalls
    /\ \E i \in 1..Len(db.reposicao_loja) :
          LET item_id == db.reposicao_loja[i].id
              now == call.no + 1
          IN  /\ db' = [db EXCEPT !.reposicao_loja =
                           [j \in 1..Len(@) |->
                               IF @[j].id = item_id
                               THEN [@[j] EXCEPT !.reposto = 1, !.reposto_em = now]
                               ELSE @[j]]]
              /\ durable' = db'
              /\ call' = [no |-> now, name |-> "marcar_reposto", records |-> <<>>,
                          zerados |-> <<>>, is_mestre |-> FALSE, ok |-> TRUE,
                          novos |-> 0, atualizados |-> 0]
    /\ UNCHANGED <<pc, annotVars, sheetVars, labelVars, clientVars>>

\* reset_db; the AUTOINCREMENT counter of reposicao_loja goes on
ResetDb ==
    /\ pc = "db"
    /\ call.no < MaxCalls
    /\ db' = [db EXCEPT !.estoque_mestre = <<>>, !.historico_uploads = <<>>,
                        !.reposicao_loja = <<>>]
    /\ durable' = db'
    /\ call' = [no |-> call.no + 1, name |-> "reset_db", records |-> <<>>,
                zerados |-> <<>>, is_mestre |-> FALSE, ok |-> TRUE,
                novos |-> 0, atualizados |-> 0]
    /\ UNCHANGED <<pc, annotVars, sheetVars, labelVars, clientVars>>

SaveVendasHistorico ==
    /\ pc = "db"
    /\ call.no < MaxCalls
    /\ \E u \in Uploads, is_mestre \in BOOLEAN :
          LET saved == save_vendas_historico(db.vendas_historico, u.records, u.zerados,
                                             is_mestre, call.no + 1)
          IN  /\ db' = [db EXCEPT !.vendas_historico = saved.table]
              /\ durable' = IF saved.commit THEN db' ELSE durable
              /\ call' = [no |-> call.no + 1, name |-> "save_vendas_historico",
                          records |-> u.records, zerados |-> u.zerados,
                          is_mestre |-> is_mestre, ok |-> TRUE,
                          novos |-> 0, atualizados |-> 0]
    /\ UNCHANGED <<pc, annotVars, sheetVars, labelVars, clientVars>>

\* sync_principios_ativos with the records of a sheet of active ingredients.
\* INSERT OR REPLACE removes the row that holds the pair (produto,
\* principio_ativo), whatever its source, and inserts the new one.
SyncPrincipiosAtivos ==
    /\ pc = "db"
    /\ call.no < MaxCalls
    /\ \E records \in UNION { [1..n -> [produto : {"Roundup", "Enxada"},
                                       principio_ativo : {"glifosato"},
                                       categoria : {<<"H", "E", "R", "B", "I", "C", "I", "D", "A", "S">>}]] : n \in 0..MaxRecords } :
          LET kept == { key \in DOMAIN db.principios_ativos :
                           db.principios_ativos[key].source # "excel" }
              keys == { <<records[k].produto, records[k].principio_ativo>> : k \in 1..Len(records) }
              table == [key \in kept \cup keys |->
                          IF key \in keys
                          THEN LET ks == { k \in 1..Len(records) :
                                             <<records[k].produto, records[k].principio_ativo>> = key }
                               IN  [categoria |-> records[CHOOSE k \in ks : \A j \in ks : j <= k].categoria,
                                    source |-> "excel"]
                          ELSE db.principios_ativos[key]]
          IN  /\ db' = IF records = <<>> THEN db ELSE [db EXCEPT !.principios_ativos = table]
              /\ durable' = IF records = <<>> THEN durable ELSE db'
              /\ call' = [no |-> call.no + 1, name |-> "sync_principios_ativos",
                          records |-> records, zerados |-> <<>>, is_mestre |-> FALSE,
                          ok |-> TRUE, novos |-> 0, atualizados |-> 0]
    /\ UNCHANGED <<pc, annotVars, sheetVars, labelVars, clientVars>>

\* salvar_resultado_agrofit_no_banco with the rows of the enrichment
SalvarResultadoAgrofit ==
    /\ pc = "db"
    /\ call.no < MaxCalls
    /\ \E df_resultado \in UNION { [1..n -> [produto : {"Roundup", "Enxada"},
                                            ingrediente : {"glifosato", ""},
                                            categoria : {<<"H", "E", "R", "B", "I", "C", "I", "D", "A", "S">>}]] : n \in 0..MaxRecords } :
          LET registros == SelectSeq(df_resultado, LAMBDA row : row.ingrediente # "")
              keys == { <<registros[k].produto, registros[k].ingrediente>> : k \in 1..Len(registros) }
              table == [key \in DOMAIN db.principios_ativos \cup keys |->
                          IF key \in keys
                          THEN LET ks == { k \in 1..Len(registros) :
                                             <<registros[k].produto, registros[k].ingrediente>> = key }
                               IN  [categoria |-> registros[CHOOSE k \in ks : \A j \in ks : j <= k].categoria,
                                    source |-> "agrofit"]
                          ELSE db.principios_ativos[key]]
          IN  /\ db' = IF registros = <<>> THEN db ELSE [db EXCEPT !.principios_ativos = table]
              /\ durable' = IF registros = <<>> THEN durable ELSE db'
              /\ call' = [no |-> call.no + 1, name |-> "salvar_resultado_agrofit_no_banco",
                          records |-> df_resultado, zerados |-> <<>>, is_mestre |-> FALSE,
                          ok |-> TRUE, novos |-> Len(registros), atualizados |-> 0]
    /\ UNCHANGED <<pc, annotVars, sheetVars, labelVars, clientVars>>

NextDb ==
    \/ UploadMestre
    \/ UploadParcial
    \/ MarcarReposto
    \/ ResetDb
    \/ SaveVendasHistorico
    \/ SyncPrincipiosAtivos
    \/ SalvarResultadoAgrofit

SpecDb == InitDb /\ [][NextDb]_vars

(***************************************************************************)
(* Properties                                                              *)
(***************************************************************************)
Parsed == pc = "parsed"

\* The normalized text the tiers of the parsed note are matched against
tlOf(n) == Normalized(strip(n))

\* C1: the tuple returned by parse_annotation satisfies
\* diferenca = qtd_fisica - qtd_sistema, and so does every record emitted by
\* the row loops of parse_estoque_format and parse_vendas_format.
C1_DifferenceIsPhysicalMinusSystem ==
    /\ Parsed => result[2] = result[1] - qtd_sistema
    /\ record.emitted = "record" =>
          record.diferenca = record.qtd_fisica - record.qtd_sistema

\* A sheet row whose note carries a correction has been emitted as a record
C1_Witness ==
    /\ pc = "estoque"
    /\ record.emitted = "record"
    /\ record.diferenca < 0
    /\ record.qtd_fisica = record.qtd_sistema + record.diferenca

\* The tiers in the order of the claim, as the list of their match results
TierMatches(tl) ==
    << _RE_FALTA_match(tl), _RE_FALTA_SHORT_match(tl), _RE_SOBRA_match(tl),
       _RE_SOBRA_SHORT_match(tl), _RE_FALTA_MID_search(tl), _RE_SOBRA_MID_search(tl) >>

\* The number of the first tier that matches; 7 is the terminal fallback
FirstTier(tl) ==
    LET ms == TierMatches(tl)
        hit == {k \in 1..6 : ms[k].ok}
    IN  IF hit = {} THEN 7 ELSE CHOOSE k \in hit : \A j \in hit : k <= j

\* What tier k alone returns
TierResult(k, text, tl, q) ==
    LET m == TierMatches(tl)[k]
    IN  CASE k \in {1, 2} -> <<q - int(m.g1), -int(m.g1), strip(m.g2), "falta">>
          [] k \in {3, 4} -> <<q + int(m.g1), int(m.g1), strip(m.g2), "sobra">>
          [] k = 5 -> <<q - int(m.g1), -int(m.g1), text, "falta">>
          [] k = 6 -> <<q + int(m.g1), int(m.g1), text, "sobra">>

Falta5Avariado == <<"f","a","l","t","a"," ","5"," ","a","v","a","r","i","a","d","o">>

\* C2: the result is that of the first tier, in the order anchored shortage,
\* shortage shorthand, anchored overage, overage shorthand, embedded
\* shortage, embedded overage, terminal fallback, whose pattern matches the
\* normalized text.  A note that starts with a shortage phrase is a shortage
\* whatever else it contains ("falta 5 avariado" with 20 gives
\* (15, -5, "avariado", falta)), and a note left to the embedded tiers that
\* has both an embedded shortage and an embedded overage phrase is a shortage.
C2_FirstMatchingTierWins ==
    (Parsed /\ ~IsNullNote(nota)) =>
        LET tl == tlOf(nota)
            ms == TierMatches(tl)
            k == FirstTier(tl)
        IN  /\ k <= 6 => result = TierResult(k, strip(nota), tl, qtd_sistema)
            /\ k = 7 => result[4] = "ok"
            /\ (ms[1].ok \/ ms[2].ok) => result[4] = "falta"
            /\ (k >= 5 /\ ms[5].ok /\ ms[6].ok) => result[4] = "falta"
            /\ (nota = Falta5Avariado /\ qtd_sistema = 20) =>
                   result = <<15, -5, <<"a","v","a","r","i","a","d","o">>, "falta">>

\* The documented example has been parsed, and more than one tier matches it
C2_Witness ==
    /\ Parsed
    /\ nota = Falta5Avariado
    /\ qtd_sistema = 20
    /\ result[4] = "falta"
    /\ Cardinality({k \in 1..6 : TierMatches(tlOf(nota))[k].ok}) > 1

(***************************************************************************)
(* The shape of a note as the staff writes it: a verb, an optional         *)
(* preposition, an amount and the remainder, read off the raw text         *)
(***************************************************************************)
RECURSIVE NonSpaceEnd(_, _)
NonSpaceEnd(s, i) == IF i <= Len(s) /\ ~IsSpace(s[i]) THEN NonSpaceEnd(s, i + 1) ELSE i

PrepWords == {<<"d", "e">>, <<"d", "o">>, <<"d", "a">>}

HeadOf(t) ==
    LET a == FirstNonSpace(t, 1)
        b == NonSpaceEnd(t, a)
        c == SpacesEnd(t, b)
        d == NonSpaceEnd(t, c)
        hasPrep == SubSeq(t, c, d - 1) \in PrepWords
        e == IF hasPrep THEN SpacesEnd(t, d) ELSE c
        f == DigitsEnd(t, e)
    IN  [verb |-> SubSeq(t, a, b - 1), verbEnd |-> b, hasPrep |-> hasPrep,
         amount |-> SubSeq(t, e, f - 1), rest |-> strip(SubSeq(t, f, Len(t)))]

ShortageVerbs == RangeOf(FaltaForms)

ShortageShorthand == {<<"f">>, <<"f", ".">>}

OverageVerbs == RangeOf(SobraForms) \ {<<"s","o","b","r">>, <<"s","o","b","r",".">>,
                                       <<"p","a","s","s">>, <<"p","a","s","s",".">>}

OverageShorthand == {<<"s">>, <<"s", ".">>}

\* The note is a shortage verb form, optionally de/do/da, an amount and a
\* remainder, or the shorthand f / f. with an amount and a remainder
IsShortageNote(t) ==
    LET h == HeadOf(t)
    IN  /\ h.amount # <<>>
        /\ h.verb \in ShortageVerbs \/ (h.verb \in ShortageShorthand /\ ~h.hasPrep)

\* The note is an overage verb form or the shorthand s / s. with an amount
\* and a remainder
IsOverageNote(t) ==
    LET h == HeadOf(t)
    IN  h.amount # <<>> /\ ~h.hasPrep /\ h.verb \in OverageVerbs \cup OverageShorthand

\* C3 as stated: a shortage note with amount n and remainder r yields
\* (q - n, -n, r, falta), the cleaned note being the remainder as written.
C3_ShortageRemainderAsWritten ==
    (Parsed /\ IsShortageNote(nota)) =>
        LET h == HeadOf(nota)
        IN  result = <<qtd_sistema - int(h.amount), -int(h.amount), h.rest, "falta">>

\* C3, amended: a shortage note with amount n and remainder r yields
\* (q - n, -n, r', falta) where r' is r in lower case with every whitespace
\* run collapsed to one space; the shorthand f / f. yields the same tuple as
\* the same note written with "falta".
C3_ShortageTuple ==
    (Parsed /\ IsShortageNote(nota)) =>
        LET h == HeadOf(nota)
        IN  /\ result = <<qtd_sistema - int(h.amount), -int(h.amount),
                          Normalized(h.rest), "falta">>
            /\ h.verb \in ShortageShorthand =>
                  result = parse_annotation(<<"f","a","l","t","a">>
                                              \o SubSeq(nota, h.verbEnd, Len(nota)),
                                            qtd_sistema)

\* A shorthand note with a period, an amount and a remainder has been parsed
C3_Witness ==
    /\ Parsed
    /\ IsShortageNote(nota)
    /\ HeadOf(nota).verb = <<"f", ".">>
    /\ HeadOf(nota).rest # <<>>
    /\ result[4] = "falta"
    /\ result[2] < 0

\* C4 as stated: an overage note with amount n and remainder r that no
\* shortage tier matches yields (q + n, +n, r, sobra), the cleaned note being
\* the remainder as written.
C4_OverageRemainderAsWritten ==
    (/\ Parsed
     /\ IsOverageNote(nota)
     /\ ~_RE_FALTA_match(tlOf(nota)).ok
     /\ ~_RE_FALTA_SHORT_match(tlOf(nota)).ok) =>
        LET h == HeadOf(nota)
        IN  result = <<qtd_sistema + int(h.amount), int(h.amount), h.rest, "sobra">>

\* C4, amended: an overage note with amount n and remainder r that no
\* shortage tier matches yields (q + n, +n, r', sobra) where r' is r in
\* lower case with every whitespace run collapsed to one space.
C4_OverageTuple ==
    (/\ Parsed
     /\ IsOverageNote(nota)
     /\ ~_RE_FALTA_match(tlOf(nota)).ok
     /\ ~_RE_FALTA_SHORT_match(tlOf(nota)).ok) =>
        LET h == HeadOf(nota)
        IN  result = <<qtd_sistema + int(h.amount), int(h.amount),
                       Normalized(h.rest), "sobra">>

\* A note of the pass... family with an amount has been parsed as overage
C4_Witness ==
    /\ Parsed
    /\ IsOverageNote(nota)
    /\ HeadOf(nota).verb = <<"p","a","s","s","o","u">>
    /\ result[4] = "sobra"
    /\ result[2] > 0

\* The trimmed note spells nan or none in some letter case
SpellsNullToken(n) ==
    \E tok \in NanTokens :
        /\ Len(strip(n)) = Len(tok)
        /\ \A i \in 1..Len(tok) : strip(n)[i] \in {tok[i], UpperOf[tok[i]]}

\* C5: an empty note, a note of whitespace only, and a note that after
\* trimming equals nan or none in any letter case yield (q, 0, "", ok).
C5_NullGuard ==
    (/\ Parsed
     /\ \/ nota = <<>>
        \/ \A i \in 1..Len(nota) : IsSpace(nota[i])
        \/ SpellsNullToken(nota)) =>
        result = <<qtd_sistema, 0, <<>>, "ok">>

\* A padded null token in mixed case has been parsed
C5_Witness ==
    /\ Parsed
    /\ strip(nota) = <<"N", "a", "N">>
    /\ Len(nota) > 3
    /\ result = <<qtd_sistema, 0, <<>>, "ok">>

\* No shortage or overage pattern matches the normalized text of the note
NoPatternMatches(n) == FirstTier(tlOf(n)) = 7

\* The note is not caught by the guard on blank and nan/none notes
NonBlank(n) == strip(n) # <<>> /\ ~SpellsNullToken(n)

\* C6 as stated: a non-blank note that no pattern matches yields
\* (q, 0, note, ok), the note being the input text unmodified.
C6_FallbackTextUnmodified ==
    (Parsed /\ NonBlank(nota) /\ NoPatternMatches(nota)) =>
        result = <<qtd_sistema, 0, nota, "ok">>

\* C6, amended: a non-blank note that no pattern matches yields
\* (q, 0, note', ok) where note' is the input text with leading and trailing
\* whitespace removed and nothing else changed (letter case and internal
\* whitespace are kept).
C6_FallbackTextTrimmed ==
    (Parsed /\ NonBlank(nota) /\ NoPatternMatches(nota)) =>
        result = <<qtd_sistema, 0, strip(nota), "ok">>

\* A padded note with capitals and a tab inside has gone to the fallback
C6_Witness ==
    /\ Parsed
    /\ NoPatternMatches(nota)
    /\ \E i \in 2..(Len(nota) - 1) : nota[i] = "\t"
    /\ \E i \in 1..Len(nota) : nota[i] \in UpperChars
    /\ nota # strip(nota)
    /\ result = <<qtd_sistema, 0, strip(nota), "ok">>

DamageStems == {<<"a","v","a","r","i">>, <<"d","a","n","i","f","i","c">>,
                <<"q","u","e","b","r">>, <<"v","a","z">>}

ContainsDamageStem(tl) == \E w \in DamageStems : \E i \in 1..Len(tl) : HasAt(tl, i, w)

\* None of the four anchored tiers matches the normalized text of the note
NoAnchoredTier(n) ==
    LET tl == tlOf(n)
    IN  /\ ~_RE_FALTA_match(tl).ok
        /\ ~_RE_FALTA_SHORT_match(tl).ok
        /\ ~_RE_SOBRA_match(tl).ok
        /\ ~_RE_SOBRA_SHORT_match(tl).ok

\* C8 as stated: a note that no anchored tier matches and that contains a
\* damage stem yields status damaged with the system quantity, difference 0
\* and the original text.
C8_DamageTier ==
    (Parsed /\ NonBlank(nota) /\ NoAnchoredTier(nota) /\ ContainsDamageStem(tlOf(nota))) =>
        /\ result[1] = qtd_sistema
        /\ result[2] = 0
        /\ result[3] \in {nota, strip(nota)}
        /\ result[4] = "avaria"

\* C8, amended: parse_annotation has no damage tier.  A note that no
\* anchored tier matches and that contains a damage stem never gets a damage
\* status: it goes to the embedded shortage and overage tiers and, when
\* neither matches, to the terminal fallback (q, 0, trimmed text, ok).
C8_NoDamageTier ==
    (Parsed /\ NonBlank(nota) /\ NoAnchoredTier(nota) /\ ContainsDamageStem(tlOf(nota))) =>
        LET m5 == _RE_FALTA_MID_search(tlOf(nota))
            m6 == _RE_SOBRA_MID_search(tlOf(nota))
        IN  /\ result[4] \in {"falta", "sobra", "ok"}
            /\ m5.ok => result[4] = "falta"
            /\ (~m5.ok /\ m6.ok) => result[4] = "sobra"
            /\ (~m5.ok /\ ~m6.ok) => result = <<qtd_sistema, 0, strip(nota), "ok">>

\* A note with a damage word and no amount has gone to the terminal fallback
C8_Witness ==
    /\ Parsed
    /\ NoAnchoredTier(nota)
    /\ ContainsDamageStem(tlOf(nota))
    /\ NoPatternMatches(nota)
    /\ result = <<qtd_sistema, 0, strip(nota), "ok">>

\* The text of tl that follows the match m, trimmed
RemainderAfter(tl, m) == strip(SubSeq(tl, m.end, Len(tl)))

\* C9 as stated: when no anchored tier matches, an embedded shortage phrase
\* with amount n yields (q - n, -n, remainder after the amount, falta) and
\* an embedded overage phrase yields (q + n, +n, remainder, sobra).
C9_EmbeddedRemainder ==
    (Parsed /\ NonBlank(nota) /\ NoAnchoredTier(nota)) =>
        LET tl == tlOf(nota)
            m5 == _RE_FALTA_MID_search(tl)
            m6 == _RE_SOBRA_MID_search(tl)
        IN  /\ m5.ok => result = <<qtd_sistema - int(m5.g1), -int(m5.g1),
                                   RemainderAfter(tl, m5), "falta">>
            /\ (~m5.ok /\ m6.ok) => result = <<qtd_sistema + int(m6.g1), int(m6.g1),
                                               RemainderAfter(tl, m6), "sobra">>

\* C9, amended: when no anchored tier matches, an embedded shortage phrase
\* with amount n yields (q - n, -n, text, falta) and, there being no embedded
\* shortage phrase, an embedded overage phrase yields (q + n, +n, text,
\* sobra), where text is the whole trimmed original note, not the remainder.
C9_EmbeddedWholeText ==
    (Parsed /\ NonBlank(nota) /\ NoAnchoredTier(nota)) =>
        LET tl == tlOf(nota)
            m5 == _RE_FALTA_MID_search(tl)
            m6 == _RE_SOBRA_MID_search(tl)
        IN  /\ m5.ok => result = <<qtd_sistema - int(m5.g1), -int(m5.g1),
                                   strip(nota), "falta">>
            /\ (~m5.ok /\ m6.ok) => result = <<qtd_sistema + int(m6.g1), int(m6.g1),
                                               strip(nota), "sobra">>

\* A note with a leading word, an embedded shortage phrase and text after
\* the amount has been parsed
C9_Witness ==
    /\ Parsed
    /\ NoAnchoredTier(nota)
    /\ _RE_FALTA_MID_search(tlOf(nota)).ok
    /\ _RE_FALTA_MID_search(tlOf(nota)).g1 = <<"5">>
    /\ RemainderAfter(tlOf(nota), _RE_FALTA_MID_search(tlOf(nota))) # <<>>
    /\ ~HasAt(tlOf(nota), 1, <<"f","a","l","t">>)
    /\ result = <<qtd_sistema - 5, -5, strip(nota), "falta">>

\* C10: the status agrees with the sign of the difference: falta implies
\* qtd_fisica < qtd_sistema and a negative difference, sobra implies
\* qtd_fisica > qtd_sistema and a positive difference, ok implies
\* difference 0, for every captured amount, the amount 0 included.
C10_StatusAgreesWithSign ==
    Parsed =>
        /\ result[4] = "falta" => (result[1] < qtd_sistema /\ result[2] < 0)
        /\ result[4] = "sobra" => (result[1] > qtd_sistema /\ result[2] > 0)
        /\ result[4] = "ok" => result[2] = 0

(***************************************************************************)
(* C11: letter case and whitespace layout of the note                      *)
(***************************************************************************)
\* The runs a single internal space is replaced by
SpaceRuns == {<<" ", " ">>, <<"\t", "\t">>}

\* Positions of the spaces strictly between the first and the last
\* non-whitespace character of n
InternalSpaces(n) ==
    {i \in 1..Len(n) : /\ n[i] = " "
                        /\ \E j \in 1..(i - 1) : ~IsSpace(n[j])
                        /\ \E k \in (i + 1)..Len(n) : ~IsSpace(n[k])}

ReplaceAt(n, i, run) == SubSeq(n, 1, i - 1) \o run \o SubSeq(n, i + 1, Len(n))

\* The note in another letter case, with whitespace added around it, or with
\* one internal space replaced by a run of spaces or tabs
NoteVariants(n) ==
    {upper(n), lower(n), <<" ">> \o n, n \o <<"\t", " ">>}
    \cup {ReplaceAt(n, i, run) : i \in InternalSpaces(n), run \in SpaceRuns}

Quantities(r) == <<r[1], r[2], r[4]>>

\* C11: for every note and system quantity, changing the letter case of the
\* note, adding leading or trailing whitespace, or replacing a single
\* internal space by a run of spaces or tabs leaves qtd_fisica, diferenca and
\* status as parse_annotation returns them unchanged.
C11_CaseAndWhitespaceInsensitive ==
    Parsed =>
        /\ Len(result) = 4
        /\ \A v \in NoteVariants(nota) :
              LET r == parse_annotation(v, qtd_sistema)
              IN  Len(r) = 4 /\ Quantities(r) = Quantities(result)

\* A shortage note written with a capital letter and a tab has been parsed
C11_Witness ==
    /\ Parsed
    /\ result[4] = "falta"
    /\ result[2] < 0
    /\ nota # lower(nota)
    /\ InternalSpaces(nota) # {}
    /\ \E i \in 1..Len(nota) : nota[i] = "\t"

(***************************************************************************)
(* C12: the rows parse_estoque_format keeps                                *)
(***************************************************************************)
EstoqueParsed == pc = "parse_estoque_format" /\ outcome.kind = "return"

SentinelTokens == {<<"N", "A", "N">>, <<"N", "O", "N", "E">>, <<"T", "O", "T", "A", "L">>, <<"P", "R", "O", "D", "U", "T", "O">>, <<"R", "O", "L", "L", "U", "P">>}

\* The product cell holds a name: a text that is not blank and no sentinel
NamesProduct(cell) ==
    /\ cell.kind = "text"
    /\ strip(cell.text) # <<>>
    /\ upper(strip(cell.text)) \notin SentinelTokens

\* What the quantity cells of the sheets are worth after the float-then-int
\* cast; -1 stands for a cell that has no number
QtdOfCell(cell) ==
    CASE cell.kind = "blank" -> -1
      [] cell.kind = "num" -> IF cell.tenths < 0 THEN 0 ELSE cell.tenths \div 10
      [] cell = T(<<"1", "5", ".", "0">>) -> 15
      [] cell = T(<<" ", "1", ".", "5", "7", "e", "1", " ">>) -> 15
      [] cell = T(<<"3">>) -> 3
      [] cell = T(<<"0">>) -> 0
      [] OTHER -> -1

\* The rows below the header of an inventory sheet that are to be kept
KeptRows(df) == SelectSeq(Tail(df), LAMBDA row : NamesProduct(row[1]) /\ QtdOfCell(row[2]) >= 1)

HasRowWithQtd(df, cell) == \E r \in 2..Len(df) : NamesProduct(df[r][1]) /\ df[r][2] = cell

\* C12: every record emitted by parse_estoque_format has qtd_sistema >= 1 and
\* a product name that is not blank and not one of NAN, NONE, TOTAL, PRODUTO,
\* ROLLUP; a data row is dropped when its quantity cell is blank, not a number
\* or <= 0 after the float-then-int cast; a row with the quantity "15.0" is
\* kept with qtd_sistema = 15 and a row with "0" is excluded.
C12_EstoqueRowFilter ==
    EstoqueParsed =>
        /\ \A i \in 1..Len(outcome.records) :
              /\ outcome.records[i].qtd_sistema >= 1
              /\ outcome.records[i].produto # <<>>
              /\ upper(outcome.records[i].produto) \notin SentinelTokens
        /\ sheet[1] = HeaderEstoque =>
              LET kept == KeptRows(sheet)
              IN  /\ Len(outcome.records) = Len(kept)
                  /\ \A i \in 1..Len(kept) :
                        /\ outcome.records[i].produto = strip(kept[i][1].text)
                        /\ outcome.records[i].qtd_sistema = QtdOfCell(kept[i][2])
                  /\ outcome.ok = (kept # <<>>)

\* A sheet with a "15.0" row and a "0" row has been parsed: one record, of 15
C12_Witness ==
    /\ EstoqueParsed
    /\ sheet[1] = HeaderEstoque
    /\ HasRowWithQtd(sheet, T(<<"1", "5", ".", "0">>))
    /\ HasRowWithQtd(sheet, T(<<"0">>))
    /\ outcome.ok
    /\ Len(outcome.records) = 1
    /\ outcome.records[1].qtd_sistema = 15

(***************************************************************************)
(* C13: the zeroed-out side-list of parse_vendas_format                    *)
(***************************************************************************)
VendasParsed ==
    pc = "parse_vendas_format" /\ outcome.kind = "return" /\ sheet[1] = HeaderVendas

VendasTokens == {<<"N", "A", "N">>, <<"N", "O", "N", "E">>, <<"R", "O", "L", "L", "U", "P">>}

NamesVendasProduct(cell) ==
    /\ cell.kind = "text"
    /\ strip(cell.text) # <<>>
    /\ upper(strip(cell.text)) \notin VendasTokens

\* What the quantity cells of the sales sheets are worth; a cell without a
\* number counts as 0
VendasQtdOfCell(cell) ==
    CASE cell.kind = "num" ->
           IF cell.tenths < 0 THEN -((-cell.tenths) \div 10) ELSE cell.tenths \div 10
      [] cell = T(<<"2">>) -> 2
      [] OTHER -> 0

\* Under HeaderVendas the sold quantity is in column 3 and the stock in column 4
ZeroedRows(df) ==
    SelectSeq(Tail(df), LAMBDA row : /\ NamesVendasProduct(row[2])
                                     /\ VendasQtdOfCell(row[4]) <= 0
                                     /\ VendasQtdOfCell(row[3]) > 0)

StockedRows(df) ==
    SelectSeq(Tail(df), LAMBDA row : NamesVendasProduct(row[2]) /\ VendasQtdOfCell(row[4]) > 0)

\* C13: for every sales sheet whose header and columns resolve, the rows with
\* a product name, stock <= 0 and sold > 0 are the zeroed-out side-list
\* parse_vendas_format returns (with qtd_estoque = 0), the rows with stock > 0
\* are its record list, and a row with stock <= 0 and sold <= 0 is in neither;
\* also when no row of the sheet has positive stock.
C13_ZeradosRetained ==
    VendasParsed =>
        LET z == ZeroedRows(sheet)
            k == StockedRows(sheet)
        IN  /\ Len(outcome.zerados) = Len(z)
            /\ \A i \in 1..Len(z) :
                  /\ i <= Len(outcome.zerados)
                  /\ outcome.zerados[i].qtd_vendida = VendasQtdOfCell(z[i][3])
                  /\ outcome.zerados[i].qtd_estoque = 0
            /\ Len(outcome.records) = Len(k)
            /\ \A i \in 1..Len(k) :
                  /\ i <= Len(outcome.records)
                  /\ outcome.records[i].qtd_sistema = VendasQtdOfCell(k[i][4])

\* The same for the sheets that have a row with positive stock
C13_ZeradosRetainedWithRecords ==
    (VendasParsed /\ StockedRows(sheet) # <<>>) => C13_ZeradosRetained

(***************************************************************************)
(* C14: what read_excel_to_records hands to its caller                     *)
(***************************************************************************)
ReadDone == pc = "read_excel_to_records"

\* C14: read_excel_to_records reports every header, column and empty-sheet
\* failure as a value and never as an exception: for every sheet it returns a
\* triple (ok, result, zerados) where ok = False comes with a diagnostic text
\* and ok = True with a non-empty list of records.
C14_AlwaysATriple ==
    ReadDone =>
        /\ outcome.kind = "return"
        /\ outcome.arity = 3
        /\ outcome.ok => (outcome.records # <<>> /\ outcome.message = "")
        /\ ~outcome.ok => (outcome.records = <<>> /\ outcome.message # "")

\* Whatever is returned as a triple is well formed
C14_TriplesWellFormed ==
    (ReadDone /\ outcome.kind = "return" /\ outcome.arity = 3) => C14_AlwaysATriple

\* A sheet without any header row makes the function raise
C14_RaisesWithoutHeader ==
    /\ ReadDone
    /\ _find_header(sheet, "estoque") = NoHeader
    /\ _find_header(sheet, "vendas") = NoHeader
    /\ outcome = Raise(ValueError)

\* A sales sheet without a header row is answered with a pair
C14_ReturnsPair ==
    /\ ReadDone
    /\ outcome.kind = "return"
    /\ outcome.arity = 2

\* A quantity cell "inf" makes the function raise
C14_RaisesOnInfinity ==
    /\ ReadDone
    /\ outcome = Raise(OverflowError)

(***************************************************************************)
(* C15: the 'no valid rows' failure                                        *)
(***************************************************************************)
\* The file was readable and read_excel_to_records has come to its end
ReadFrameDone == ReadDone /\ ~(outcome.kind = "return" /\ outcome.message = ErroAoLer)

\* The header and the columns of the sheet resolve in exactly one format and
\* every data row is filtered out
ResolvedWithoutRows(df) ==
    \/ /\ _find_header(df, "vendas") = NoHeader
       /\ parse_estoque_format(df) = Return2(FALSE, EstoqueNoRows, <<>>)
    \/ /\ _find_header(df, "estoque") = NoHeader
       /\ parse_vendas_format(df) = Return3(FALSE, VendasNoRows, <<>>, <<>>)

NoHeaderAtAll(df) ==
    _find_header(df, "estoque") = NoHeader /\ _find_header(df, "vendas") = NoHeader

NoRowsFailure(o) ==
    o.kind = "return" /\ ~o.ok /\ o.message \in {EstoqueNoRows, VendasNoRows}

\* The row of the header, whichever format finds it
HeaderRow(df) ==
    IF _find_header(df, "estoque") # NoHeader THEN _find_header(df, "estoque")
    ELSE _find_header(df, "vendas")

\* C15: whenever the header row and the required columns of a sheet resolve
\* but every data row is filtered out, the caller of read_excel_to_records
\* receives the 'no valid rows' failure, wherever the header is within the
\* 15 rows of the header search, and a sheet without any header row gets a
\* failure that is not the 'no valid rows' one.
C15_NoValidRowsDistinct ==
    ReadFrameDone =>
        /\ ResolvedWithoutRows(sheet) => NoRowsFailure(outcome)
        /\ NoHeaderAtAll(sheet) => (outcome.kind = "return" /\ ~outcome.ok /\ ~NoRowsFailure(outcome))

\* The 'no valid rows' failure does reach the caller when detect_format has
\* recognised the format in which the sheet resolves
C15_NoValidRowsWhenDetected ==
    (ReadFrameDone /\ ResolvedWithoutRows(sheet)
        /\ detect_format(sheet) = (IF _find_header(sheet, "estoque") # NoHeader
                                   THEN "estoque" ELSE "vendas"))
        => NoRowsFailure(outcome)

\* A sheet whose header is below the rows detect_format looks at and whose
\* rows are all filtered out is answered like an unrecognised sheet
C15_LateHeaderUnrecognised ==
    /\ ReadFrameDone
    /\ ResolvedWithoutRows(sheet)
    /\ HeaderRow(sheet) > DetectRows
    /\ outcome = Return3(FALSE, FormatoNaoReconhecido, <<>>, <<>>)

(***************************************************************************)
(* C16: detect_format                                                      *)
(***************************************************************************)
Detected == pc = "detect_format"

\* The text of the row contains a sales marker
SalesMarked(row) ==
    LET row_text == Join(row_vals(row), <<" ">>)
    IN  \E x \in {<<"Q", "T", "D", "D", " ", "-", " ", "V", "E", "N", "D", "I", "D", "A">>, <<"Q", "T", "D", "D", " ", "E", "S", "T", "O", "Q", "U", "E">>, <<"G", "R", "U", "P", "O", " ", "D", "E", " ", "P", "R", "O", "D", "U", "T", "O">>} : Contains(row_text, x)

\* The row has a cell equal to PRODUTO and a cell that contains QUANTIDADE or
\* equals QTD
InventoryMarked(row) ==
    LET vals == row_vals(row)
    IN  /\ \E j \in 1..Len(vals) : vals[j] = <<"P", "R", "O", "D", "U", "T", "O">>
        /\ \E j \in 1..Len(vals) : Contains(vals[j], <<"Q", "U", "A", "N", "T", "I", "D", "A", "D", "E">>) \/ vals[j] = <<"Q", "T", "D">>

\* The rows among the first ten that carry a marker
MarkedRows(df) == {i \in 1..Len(df) : i <= 10 /\ (SalesMarked(df[i]) \/ InventoryMarked(df[i]))}

\* C16: detect_format reads the rows from the top, at most the first 10, and
\* returns the format of the first row that carries a marker: vendas when the
\* text of that row contains a sales marker, estoque when the row has a cell
\* equal to PRODUTO and a cell that contains QUANTIDADE or equals QTD;
\* desconhecido when no row among them carries a marker; the rows from index
\* 10 on never influence the result.
C16_FirstMarkedRowDecides ==
    Detected =>
        LET marked == MarkedRows(sheet)
        IN  /\ marked = {} => outcome.format = "desconhecido"
            /\ marked # {} =>
                  LET first == CHOOSE i \in marked : \A k \in marked : i <= k
                  IN  outcome.format = IF SalesMarked(sheet[first]) THEN "vendas" ELSE "estoque"
            /\ outcome.format = detect_format(SubSeq(sheet, 1, Min(10, Len(sheet))))
            /\ Len(sheet) > 10 =>
                  outcome.format = detect_format(SubSeq(sheet, 1, 10) \o <<HeaderVendas, HeaderEstoque>>)

\* An inventory header has decided although a sales header follows it among
\* the first ten rows, and there is a row from index 10 on
C16_Witness ==
    /\ Detected
    /\ outcome.format = "estoque"
    /\ \E i \in 1..10 : \E k \in 1..10 :
          i < k /\ k <= Len(sheet) /\ InventoryMarked(sheet[i]) /\ SalesMarked(sheet[k])
    /\ Len(sheet) > 10

(***************************************************************************)
(* C17: the column mapping of parse_estoque_format                         *)
(***************************************************************************)
\* The header row of an inventory sheet has been found and mapped
EstoqueMapped == pc = "parse_estoque_format" /\ _find_header(sheet, "estoque") # NoHeader

\* The name of column j in upper case, as the rules look at it
NameOfColumn(df, j) == upper(strip(str(df[_find_header(df, "estoque")][j])))

\* The rules of the four roles
ProductRule(cu) == cu = <<"P", "R", "O", "D", "U", "T", "O">>

QuantityRule(cu) == cu = <<"Q", "T", "D">> \/ Contains(cu, <<"Q", "U", "A", "N", "T", "I", "D", "A", "D", "E">>)

CodeRule(cu) == cu = <<"C", "Ó", "D", "I", "G", "O">> \/ cu = <<"C", "O", "D", "I", "G", "O">> \/ cu = <<"C", "O", "D">>

NoteRule(cu) ==
    \E w \in {<<"O", "B", "S">>, <<"N", "O", "T", "A">>, <<"D", "I", "F", "E", "R", "E", "N">>, <<"A", "N", "O", "T", "A">>} : Contains(cu, w)

Leftmost(S) == IF S = {} THEN 0 ELSE CHOOSE j \in S : \A k \in S : j <= k

\* The position of the column a role was given; 0 when it has none
PositionOf(df, role) ==
    IF role = <<>> THEN 0 ELSE col_index(columns_of(df, _find_header(df, "estoque")), role[1])

\* Column j has, among its first 20 non-blank values below the header, a
\* value with a letter that is not NAN or NONE
SampleHasText(df, j) ==
    LET h == _find_header(df, "estoque")
        values == dropna_astype_str(df, h, j, h + 1)
    IN  \E k \in 1..Len(values) :
            /\ k <= 20
            /\ \E c \in 1..Len(values[k]) : values[k][c] \in LowerChars \cup UpperChars
            /\ upper(values[k]) \notin {<<"N", "A", "N">>, <<"N", "O", "N", "E">>}

ColumnsOfSheet(df) == 1..Len(df[_find_header(df, "estoque")])

\* The leftmost column that no header role holds and whose sample has a text
NoteByContent(df, claimed) ==
    Leftmost({j \in ColumnsOfSheet(df) : j \notin claimed /\ SampleHasText(df, j)})

C17_WitnessByContent ==
    /\ EstoqueMapped
    /\ outcome.kind = "return" /\ outcome.ok
    /\ LET m == estoque_col_map(sheet, _find_header(sheet, "estoque"))
           n == PositionOf(sheet, m.nota)
       IN  /\ n # 0
           /\ ~NoteRule(NameOfColumn(sheet, n))
           /\ \E j \in 1..(n - 1) :
                 j \notin {PositionOf(sheet, m.produto), PositionOf(sheet, m.qtd),
                           PositionOf(sheet, m.codigo)}

(***************************************************************************)
(* C18: the synthetic code                                                 *)
(***************************************************************************)
\* The first n characters of the name in upper case with every character
\* outside A-Z and 0-9 left out, from position i on
RECURSIVE CleanedPrefix(_, _, _)
CleanedPrefix(name, i, n) ==
    IF i > Len(name) \/ n = 0 THEN <<>>
    ELSE LET u == upper(<<name[i]>>)[1]
         IN  IF u \in UpperChars \cup DigitChars
             THEN <<u>> \o CleanedPrefix(name, i + 1, n - 1)
             ELSE CleanedPrefix(name, i + 1, n)

SyntheticCode(name) == <<"A", "U", "T", "O", "_">> \o CleanedPrefix(name, 1, 20)

\* The row of an inventory sheet has no code of its own
NoCodeInRow(row) == row[4].kind = "blank" \/ upper(strip(str(row[4]))) \in {<<"N", "A", "N">>, <<"N", "O", "N", "E">>, <<>>}

\* The product cell of a sales row does not start with a code
NoCodeInName(row) == row[2].kind = "text" /\ ~IsDigit(strip(row[2].text)[1])

\* The records of the rows without a code of their own, for the sheets whose
\* header is the first row
SyntheticRecords ==
    IF pc = "parse_estoque_format" /\ outcome.kind = "return" /\ sheet[1] = HeaderEstoque
    THEN LET kept == KeptRows(sheet)
         IN  {outcome.records[i] : i \in {k \in 1..Len(outcome.records) : NoCodeInRow(kept[k])}}
    ELSE IF VendasParsed /\ outcome.ok
    THEN LET kept == StockedRows(sheet)
             zeroed == ZeroedRows(sheet)
         IN  {outcome.records[i] : i \in {k \in 1..Len(outcome.records) : NoCodeInName(kept[k])}}
             \cup {outcome.zerados[i] : i \in {k \in 1..Len(outcome.zerados) : NoCodeInName(zeroed[k])}}
    ELSE {}

\* C18: for rows without an explicit code the synthetic code depends on the
\* product name only: it is AUTO_ followed by the first 20 characters of the
\* name in upper case with every character outside A-Z and 0-9 removed; two
\* rows with the same name get the same code, and so do two different names
\* whose cleaned 20-character prefixes coincide.
C18_SyntheticCode ==
    /\ \A r \in SyntheticRecords : r.codigo = SyntheticCode(r.produto)
    /\ \A r1 \in SyntheticRecords : \A r2 \in SyntheticRecords :
          CleanedPrefix(r1.produto, 1, 20) = CleanedPrefix(r2.produto, 1, 20)
              => r1.codigo = r2.codigo

\* Two rows with different long names have been given the same code
C18_Witness ==
    \E r1 \in SyntheticRecords : \E r2 \in SyntheticRecords :
        /\ pc = "parse_estoque_format"
        /\ r1.produto # r2.produto
        /\ upper(r1.produto) # upper(r2.produto)
        /\ r1.codigo = r2.codigo
        /\ Len(r1.codigo) = 25
        /\ r1.qtd_sistema # r2.qtd_sistema

(***************************************************************************)
(* C19: classify_product                                                   *)
(***************************************************************************)
Classified == pc = "classify_product"

\* The categories in the order of their rules
CategoryOrder ==
    << <<"H", "E", "R", "B", "I", "C", "I", "D", "A", "S">>, <<"F", "U", "N", "G", "I", "C", "I", "D", "A", "S">>, <<"I", "N", "S", "E", "T", "I", "C", "I", "D", "A", "S">>, <<"N", "E", "M", "A", "T", "I", "C", "I", "D", "A", "S">>, <<"A", "D", "U", "B", "O", "S", " ", "F", "O", "L", "I", "A", "R", "E", "S">>,
       <<"A", "D", "U", "B", "O", "S", " ", "Q", "U", "Í", "M", "I", "C", "O", "S">>, <<"A", "D", "U", "B", "O", "S", " ", "C", "O", "R", "R", "E", "T", "I", "V", "O", "S">>, <<"Ó", "L", "E", "O", "S">>, <<"S", "E", "M", "E", "N", "T", "E", "S">>, <<"A", "D", "J", "U", "V", "A", "N", "T", "E", "S">>,
       <<"M", "E", "D", "I", "C", "A", "M", "E", "N", "T", "O", "S">> >>

\* The rules one of whose keywords occurs in the name in upper case
RulesHit(name) ==
    {k \in 1..Len(_CLASSIFY_RULES) :
        \E j \in 1..Len(_CLASSIFY_RULES[k].keywords) :
            Contains(upper(name), _CLASSIFY_RULES[k].keywords[j])}

\* C19: for every product name, in any letter case, classify_product returns
\* the category of the first rule of _CLASSIFY_RULES one of whose keywords is
\* a substring of the name in upper case, and OUTROS when no keyword occurs;
\* of two categories whose keywords both occur the one listed earlier wins: a
\* name with both ADUBO FOLIAR and ADJUVANTE is classified ADUBOS FOLIARES.
C19_FirstRuleWins ==
    Classified =>
        LET hits == RulesHit(label)
        IN  /\ hits = {} => category = <<"O", "U", "T", "R", "O", "S">>
            /\ hits # {} =>
                  LET first == CHOOSE k \in hits : \A j \in hits : k <= j
                  IN  category = _CLASSIFY_RULES[first].cat /\ category = CategoryOrder[first]
            /\ classify_product(lower(label)) = category
            /\ classify_product(upper(label)) = category
            /\ (Contains(upper(label), <<"A", "D", "U", "B", "O", " ", "F", "O", "L", "I", "A", "R">>) /\ Contains(upper(label), <<"A", "D", "J", "U", "V", "A", "N", "T", "E">>)
                /\ {1, 2, 3, 4} \cap hits = {})
                  => category = <<"A", "D", "U", "B", "O", "S", " ", "F", "O", "L", "I", "A", "R", "E", "S">>

\* A name with keywords of two categories has got the earlier one although
\* the later keyword comes first in the name
C19_Witness ==
    /\ Classified
    /\ label = <<"A", "D", "J", "U", "V", "A", "N", "T", "E", " ", "A", "d", "u", "b", "o", " ", "F", "o", "l", "i", "a", "r">>
    /\ Cardinality(RulesHit(label)) = 2
    /\ category = <<"A", "D", "U", "B", "O", "S", " ", "F", "O", "L", "I", "A", "R", "E", "S">>

(***************************************************************************)
(* C20: normalize_grupo                                                    *)
(***************************************************************************)
Normalised == pc = "normalize_grupo"

\* The label without the whitespace around it, in upper case
TrimmedUpper(l) == upper(strip(l))

\* C20: normalize_grupo trims its input and puts it in upper case; when that
\* is a key of the synonym table it returns the spelling the table gives for
\* it, otherwise it returns the trimmed upper-case label unchanged; applied to
\* its own output it returns that output.
C20_NormalizeGrupo ==
    Normalised =>
        LET key == TrimmedUpper(label)
            entries == {i \in DOMAIN _GRUPO_MAP : _GRUPO_MAP[i][1] = key}
        IN  /\ entries # {} => \A i \in entries : category = _GRUPO_MAP[i][2]
            /\ entries = {} => category = key
            /\ normalize_grupo(category) = category

\* A synonym written in lower case with whitespace around it has been given
\* its canonical spelling, which is not a key of the table
C20_Witness ==
    /\ Normalised
    /\ label # TrimmedUpper(label)
    /\ category # TrimmedUpper(label)
    /\ category \notin GrupoKeys
    /\ normalize_grupo(category) = category

(***************************************************************************)
(* C24: a shortage note with a decimal amount                              *)
(***************************************************************************)
\* Positions of tl that hold a decimal separator between two digits such
\* that the text before the separator is a whole anchored shortage phrase
\* ending in its amount
DecimalSeparators(tl) ==
    {i \in 2..(Len(tl) - 1) :
        /\ tl[i] \in {",", "."}
        /\ IsDigit(tl[i - 1])
        /\ IsDigit(tl[i + 1])
        /\ LET m == FirstAltPrepNum(SubSeq(tl, 1, i - 1), 1, FaltaForms, 1)
           IN  m.ok /\ m.g2 = <<>>}

\* The note is a shortage phrase with a decimal amount such as "falta 2,5"
DecimalShortage(n) == DecimalSeparators(tlOf(n)) # {}

\* The integer part of the amount before the separator at i
IntegerPartBefore(tl, i) == FirstAltPrepNum(SubSeq(tl, 1, i - 1), 1, FaltaForms, 1).g1

\* C24 as stated: a note with a decimal amount such as "falta 2,5" is not
\* matched by the anchored shortage tier; it is either caught by the embedded
\* shortage fallback with the integer part as amount (cleaned note the whole
\* text) or reaches the terminal fallback.
C24_DecimalFallsThrough ==
    (Parsed /\ DecimalShortage(nota)) =>
        \A i \in DecimalSeparators(tlOf(nota)) :
            LET n == int(IntegerPartBefore(tlOf(nota), i))
            IN  \/ result = <<qtd_sistema - n, -n, strip(nota), "falta">>
                \/ result = <<qtd_sistema, 0, strip(nota), "ok">>

\* C24, amended: a note with a decimal amount such as "falta 2,5" is matched
\* by the anchored shortage tier (tier 1): the amount is the integer part
\* before the separator, and the separator with the fraction and whatever
\* follows becomes the cleaned note, so "falta 2,5" with system quantity q
\* gives (q - 2, -2, ",5", falta).
C24_DecimalMatchedByTier1 ==
    (Parsed /\ DecimalShortage(nota)) =>
        \A i \in DecimalSeparators(tlOf(nota)) :
            LET tl == tlOf(nota)
                n == int(IntegerPartBefore(tl, i))
            IN  result = <<qtd_sistema - n, -n, strip(SubSeq(tl, i, Len(tl))), "falta">>

\* The note "falta 2,5" has been parsed
C24_Witness ==
    /\ Parsed
    /\ tlOf(nota) = <<"f", "a", "l", "t", "a", " ", "2", ",", "5">>
    /\ DecimalShortage(nota)
    /\ result = <<qtd_sistema - 2, -2, <<",", "5">>, "falta">>

(***************************************************************************)
(* C29: the physical quantity of an emitted record                         *)
(***************************************************************************)
\* A parser has returned records
RecordsReturned ==
    /\ pc \in {"parse_estoque_format", "parse_vendas_format"}
    /\ outcome.kind = "return"
    /\ outcome.records # <<>>

\* C29: every record emitted by parse_estoque_format and parse_vendas_format
\* has qtd_fisica >= 0: a shortage note whose amount exceeds the system
\* quantity never produces a negative physical quantity.
C29_PhysicalQuantityNonNegative ==
    RecordsReturned =>
        \A k \in 1..Len(outcome.records) : outcome.records[k].qtd_fisica >= 0

\* A row with system quantity 3 and the note "falta 5" has been emitted with
\* the physical quantity -2
C29_NegativePhysicalQuantity ==
    /\ pc = "parse_estoque_format"
    /\ RecordsReturned
    /\ \E k \in 1..Len(outcome.records) :
          /\ outcome.records[k].qtd_sistema = 3
          /\ outcome.records[k].qtd_fisica = -2
          /\ outcome.records[k].diferenca = -5
          /\ outcome.records[k].status = "falta"

(***************************************************************************)
(* C28: the failures of parse_estoque_format                               *)
(***************************************************************************)
\* parse_estoque_format has returned (False, message)
EstoqueFailed == EstoqueParsed /\ ~outcome.ok

\* C28: in parse_estoque_format, whenever a header row is found both the
\* product role and the quantity role are resolved, so the failure "falta
\* 'Produto' ou 'Quantidade'" is unreachable: every returned failure is
\* either the one of the header not found or the one of no valid rows.
C28_RequiredColumnsResolved ==
    /\ EstoqueMapped =>
          LET m == estoque_col_map(sheet, _find_header(sheet, "estoque"))
          IN  HasColumn(m.produto) /\ HasColumn(m.qtd)
    /\ EstoqueFailed =>
          /\ outcome.message # EstoqueNoColumns
          /\ outcome.message \in
                {"Cabeçalho não encontrado. Preciso de 'Produto' e 'Quantidade'.", EstoqueNoRows}
          /\ outcome.message = EstoqueNoRows <=> _find_header(sheet, "estoque") # NoHeader

\* A header whose quantity column comes before its product column has been
\* found below the first row and both roles are resolved
C28_Witness ==
    /\ EstoqueMapped
    /\ LET m == estoque_col_map(sheet, _find_header(sheet, "estoque"))
       IN  /\ HasColumn(m.produto) /\ HasColumn(m.qtd)
           /\ PositionOf(sheet, m.qtd) < PositionOf(sheet, m.produto)
    /\ outcome.kind = "return" /\ outcome.ok

\* The sheet has failed for want of valid rows under a header that was found
C28_WitnessNoRows ==
    /\ EstoqueFailed
    /\ _find_header(sheet, "estoque") > 1
    /\ outcome.message = EstoqueNoRows

(***************************************************************************)
(* C21: the order of the data rows                                         *)
(***************************************************************************)
\* The orders the n data rows are put in: every order of up to three rows,
\* and for longer sheets the reversal and the two rotations by one row
RowOrders(n) ==
    IF n <= 3 THEN Permutations(1..n)
    ELSE { [i \in 1..n |-> n + 1 - i], [i \in 1..n |-> (i % n) + 1],
           [i \in 1..n |-> ((i + n - 2) % n) + 1] }

\* The sheet with the rows below the header h put in the order p
Reordered(df, h, p) ==
    [i \in 1..Len(df) |-> IF i <= h THEN df[i] ELSE df[h + p[i - h]]]

Emitted(recs) == SelectSeq(recs, LAMBDA r : r.emitted = "record")

\* The records of the rows of df below the header h, each as the run over df
\* produced it, listed in the order p
EstoqueRecordsInOrder(df, h, p) ==
    LET cols == columns_of(df, h)
        m == estoque_col_map(df, h)
    IN  Emitted([i \in 1..(Len(df) - h) |-> estoque_record(df[h + p[i]], cols, m)])

\* current_grupo when the run over df reaches row r
RECURSIVE GrupoAt(_, _, _, _, _)
GrupoAt(df, cols, m, h, r) ==
    IF r <= h THEN OUTROS
    ELSE next_grupo(df[r], cols, m, GrupoAt(df, cols, m, h, r - 1))

VendasRecordsInOrder(df, h, p) ==
    LET cols == columns_of(df, h)
        m == vendas_cols(cols)
    IN  Emitted([i \in 1..(Len(df) - h) |->
                    vendas_record(df[h + p[i]], cols, m, GrupoAt(df, cols, m, h, h + p[i]))])

\* A parser has returned for a sheet with a header
EstoqueRowsRun ==
    /\ EstoqueParsed
    /\ _find_header(sheet, "estoque") # NoHeader

VendasRowsRun ==
    /\ VendasParsed
    /\ outcome.arity = 3
    /\ _find_header(sheet, "vendas") # NoHeader

RecordsOf(r) == IF r.kind = "return" THEN r.records ELSE <<"raised">>

\* C21 as stated: for both parsers the record of a data row depends only on
\* that row's own cells, so putting the data rows below the header in another
\* order yields the same records in that order.
C21_RowsIndependent ==
    /\ EstoqueRowsRun =>
          LET h == _find_header(sheet, "estoque")
          IN  \A p \in RowOrders(Len(sheet) - h) :
                 RecordsOf(parse_estoque_format(Reordered(sheet, h, p)))
                    = EstoqueRecordsInOrder(sheet, h, p)
    /\ VendasRowsRun =>
          LET h == _find_header(sheet, "vendas")
          IN  \A p \in RowOrders(Len(sheet) - h) :
                 RecordsOf(parse_vendas_format(Reordered(sheet, h, p)))
                    = VendasRecordsInOrder(sheet, h, p)

\* The note role is given by the name of a column of the header
NoteByName(df, h) ==
    col_map_from(columns_of(df, h), 1,
                 [produto |-> <<>>, qtd |-> <<>>, codigo |-> <<>>, nota |-> <<>>]).nota # <<>>

WithoutCategory(recs) ==
    [k \in 1..Len(recs) |-> [f \in DOMAIN recs[k] \ {"categoria"} |-> recs[k][f]]]

\* The category of a sales record: the group of the nearest group cell at or
\* above the row, or the classification of the name when that group is
\* OUTROS or empty
CategoryUnderGroup(rec, g) ==
    IF normalize_grupo(g) \in {OUTROS, <<>>} THEN classify_product(rec.produto)
    ELSE normalize_grupo(g)

\* C21, amended: in parse_estoque_format, putting the data rows in another
\* order yields the same records in that order when the note column is named
\* in the header or the sheet has at most 20 data rows (the search for a note
\* column by content looks at the first 20 non-blank values of a column).  In
\* parse_vendas_format the code, product, quantities, note and status of a
\* record depend only on the row's own cells and follow the order of the
\* rows; the category is that of the nearest group cell at or above the row,
\* so it changes with the order.
C21_RowsIndependentButGroup ==
    /\ EstoqueRowsRun =>
          LET h == _find_header(sheet, "estoque")
          IN  (NoteByName(sheet, h) \/ Len(sheet) - h <= SampleSize) =>
                 \A p \in RowOrders(Len(sheet) - h) :
                    RecordsOf(parse_estoque_format(Reordered(sheet, h, p)))
                       = EstoqueRecordsInOrder(sheet, h, p)
    /\ VendasRowsRun =>
          LET h == _find_header(sheet, "vendas")
          IN  \A p \in RowOrders(Len(sheet) - h) :
                 LET there == parse_vendas_format(Reordered(sheet, h, p))
                     here == VendasRecordsInOrder(sheet, h, p)
                     cols == columns_of(sheet, h)
                     m == vendas_cols(cols)
                 IN  /\ there.kind = "return"
                     /\ WithoutCategory(there.records) = WithoutCategory(here)
                     /\ \A k \in 1..Len(there.records) :
                           \E r \in (h + 1)..Len(sheet) :
                              there.records[k].categoria =
                                 CategoryUnderGroup(there.records[k],
                                    GrupoAt(Reordered(sheet, h, p), cols, m, h, r))

\* Two inventory rows that both give a record have been parsed, and the
\* other order gives the two records the other way round
C21_Witness ==
    /\ EstoqueRowsRun
    /\ Len(outcome.records) = 2
    /\ outcome.records[1] # outcome.records[2]
    /\ LET h == _find_header(sheet, "estoque")
       IN  /\ Len(sheet) = h + 2
           /\ RecordsOf(parse_estoque_format(Reordered(sheet, h, <<2, 1>>)))
                 = <<outcome.records[2], outcome.records[1]>>

\* A sales row without a group cell under a row with one has been parsed;
\* in the other order its category is another one
C21_WitnessGroup ==
    /\ VendasRowsRun
    /\ Len(outcome.records) = 2
    /\ LET h == _find_header(sheet, "vendas")
           there == parse_vendas_format(Reordered(sheet, h, <<2, 1>>))
       IN  /\ Len(sheet) = h + 2
           /\ there.kind = "return" /\ Len(there.records) = 2
           /\ there.records[1].produto = outcome.records[2].produto
           /\ there.records[1].categoria # outcome.records[2].categoria
           /\ WithoutCategory(there.records)
                 = WithoutCategory(<<outcome.records[2], outcome.records[1]>>)

(***************************************************************************)
(* C30: the outcomes of AgroFitClient._get                                 *)
(***************************************************************************)
GetOver == pc = "_get" /\ reply.kind \in {"return", "raise"}

LastResponse == responses[Len(responses)]

\* The answers after which the loop goes on: a 429, a failed request, and a
\* 200 whose body is not JSON
Retried(resp) ==
    \/ resp.failed
    \/ resp.status_code = 429
    \/ resp.status_code = 200 /\ resp.body = "not json"

\* What _get does when it does not raise: at most _MAX_RETRIES requests, the
\* body of the first 200 response or None, and no request after a status
\* other than 200 or 429
GetReturnsBodyOrNone ==
    /\ Len(responses) <= _MAX_RETRIES
    /\ reply.kind = "continue" => Len(responses) < _MAX_RETRIES
    /\ \A k \in 1..(Len(responses) - 1) : Retried(responses[k])
    /\ reply.kind = "return" =>
          \/ /\ LastResponse.status_code = 200
             /\ reply.value = LastResponse.body
             /\ reply.value \in {"list", "dict"}
          \/ /\ reply.value = "None"
             /\ ~LastResponse.failed => LastResponse.status_code # 401
             /\ Retried(LastResponse) => Len(responses) = _MAX_RETRIES

C30_WitnessThirdAttempt ==
    /\ GetOver
    /\ Len(responses) = _MAX_RETRIES
    /\ responses[1].failed
    /\ responses[2].status_code = 429
    /\ reply = [kind |-> "return", value |-> "dict"]

\* Three requests failed and None came back
C30_WitnessExhausted ==
    /\ GetOver
    /\ \A k \in 1..Len(responses) : responses[k].failed
    /\ reply = [kind |-> "return", value |-> "None"]

(***************************************************************************)
(* C22: sync_principios_ativos and the rows of origin 'agrofit'            *)
(***************************************************************************)
AgrofitKeys(table) == { key \in DOMAIN table : table[key].source = "agrofit" }

\* C22: sync_principios_ativos replaces only rows of origin 'excel': each row
\* of principios_ativos whose source is 'agrofit' before the call is still
\* there with source 'agrofit' after it, also when an Excel record has the
\* same (produto, principio_ativo) pair.
C22_AgrofitRowsKept ==
    [][call'.name = "sync_principios_ativos" =>
          AgrofitKeys(db.principios_ativos) \subseteq AgrofitKeys(db'.principios_ativos)]_vars

\* An Excel record has taken the place of the row the enrichment had stored
C22_AgrofitRowReplaced ==
    /\ pc = "db"
    /\ call.no = 1
    /\ call.name = "sync_principios_ativos"
    /\ Len(call.records) = 1
    /\ call.records[1].produto = "Roundup"
    /\ call.records[1].principio_ativo = "glifosato"
    /\ db.principios_ativos[<<"Roundup", "glifosato">>].source = "excel"
    /\ durable = db

(***************************************************************************)
(* C23: save_vendas_historico                                              *)
(***************************************************************************)
CodesOf(s) == { s[k].codigo : k \in 1..Len(s) }

\* The rows of one upload at the time now: one per record, then one per
\* zeroed product with stock 0
RowsOfUpload(records, zerados, now) ==
    [k \in 1..Len(records) |->
        [codigo |-> records[k].codigo, produto |-> records[k].produto,
         grupo |-> records[k].categoria,
         qtd_vendida |-> IF "qtd_vendida" \in DOMAIN records[k] THEN records[k].qtd_vendida ELSE 0,
         qtd_estoque |-> records[k].qtd_sistema, data_upload |-> now]]
    \o [k \in 1..Len(zerados) |->
           [codigo |-> zerados[k].codigo, produto |-> zerados[k].produto,
            grupo |-> zerados[k].grupo, qtd_vendida |-> zerados[k].qtd_vendida,
            qtd_estoque |-> 0, data_upload |-> now]]

\* C23: in partial mode save_vendas_historico leaves every row whose code is
\* neither in records nor in zerados as it was, and each code of the upload
\* has only the rows this call wrote; in master mode the table holds exactly
\* the rows of this upload.
C23_PartialKeepsTheRest ==
    [][call'.name = "save_vendas_historico" =>
          LET codes == CodesOf(call'.records) \cup CodesOf(call'.zerados)
              written == RowsOfUpload(call'.records, call'.zerados, call'.no)
          IN  IF call'.is_mestre THEN db'.vendas_historico = written
              ELSE /\ SelectSeq(db'.vendas_historico, LAMBDA row : row.codigo \notin codes)
                         = SelectSeq(db.vendas_historico, LAMBDA row : row.codigo \notin codes)
                   /\ SelectSeq(db'.vendas_historico, LAMBDA row : row.codigo \in codes)
                         = written]_vars

\* A partial save of a product has kept the older row of another product and
\* written the new row
C23_Witness ==
    /\ pc = "db"
    /\ call.name = "save_vendas_historico"
    /\ ~call.is_mestre
    /\ CodesOf(call.records) \cup CodesOf(call.zerados) = {"A"}
    /\ \E i, j \in 1..Len(db.vendas_historico) :
          /\ db.vendas_historico[i].codigo = "B"
          /\ db.vendas_historico[i].data_upload < call.no
          /\ db.vendas_historico[j].codigo = "A"
    /\ \A j \in 1..Len(db.vendas_historico) :
          db.vendas_historico[j].codigo = "A" => db.vendas_historico[j].data_upload = call.no

\* A master save has replaced the older rows
C23_WitnessMaster ==
    /\ pc = "db"
    /\ call.name = "save_vendas_historico"
    /\ call.is_mestre
    /\ call.no = 2
    /\ Len(db.vendas_historico) = 1
    /\ db.vendas_historico[1].data_upload = 2

(***************************************************************************)
(* C25: upload_mestre that fails                                           *)
(***************************************************************************)
WritesEstoque(name) == name \in {"upload_mestre", "upload_parcial", "reset_db"}

\* C25: when upload_mestre returns (False, message), estoque_mestre and
\* historico_uploads are as before the call, also after a later operation
\* commits on the shared connection: the DELETE of the failed call is never
\* made durable.
C25_FailedUploadChangesNothing ==
    [][/\ (call'.name = "upload_mestre" /\ ~call'.ok) =>
             /\ db'.estoque_mestre = db.estoque_mestre
             /\ db'.historico_uploads = db.historico_uploads
       /\ (call.name = "upload_mestre" /\ ~call.ok /\ ~WritesEstoque(call'.name)) =>
             /\ durable'.estoque_mestre = durable.estoque_mestre
             /\ durable'.historico_uploads = durable.historico_uploads]_vars

\* The DELETE of a failed master upload has been made durable by the commit
\* of marcar_reposto
C25_DeleteMadeDurable ==
    /\ pc = "db"
    /\ call.no = 2
    /\ call.name = "marcar_reposto"
    /\ DOMAIN durable.estoque_mestre # {"A", "B"}
    /\ Len(durable.historico_uploads) = 1
    /\ durable.historico_uploads[1].data = 0
    /\ Len(durable.reposicao_loja) = 1
    /\ durable.reposicao_loja[1].criado_em = 0

(***************************************************************************)
(* C26: upload_parcial                                                     *)
(***************************************************************************)
\* C26: after upload_parcial returns success every code of records has a row
\* in estoque_mestre with that record's quantities, novos + atualizados =
\* len(records), exactly novos rows were inserted and exactly atualizados
\* rows were changed.
C26_EveryRecordStored ==
    [][(call'.name = "upload_parcial" /\ call'.ok) =>
          LET records == call'.records
              before == db.estoque_mestre
              after == db'.estoque_mestre
          IN  /\ \A k \in 1..Len(records) :
                    /\ records[k].codigo \in DOMAIN after
                    /\ after[records[k].codigo].qtd_sistema = records[k].qtd_sistema
                    /\ after[records[k].codigo].qtd_fisica = records[k].qtd_fisica
                    /\ after[records[k].codigo].diferenca = records[k].diferenca
              /\ call'.novos + call'.atualizados = Len(records)
              /\ Cardinality(DOMAIN after \ DOMAIN before) = call'.novos
              /\ Cardinality({ c \in DOMAIN after \cap DOMAIN before : after[c] # before[c] })
                    = call'.atualizados]_vars

\* upload_parcial has reported one updated product for a code that was in
\* the table, in records and in zerados, and the table has no row for it
C26_UpdatedProductMissing ==
    /\ pc = "db"
    /\ call.name = "upload_parcial"
    /\ call.ok
    /\ call.atualizados = 1
    /\ CodesOf(call.records) = {"A"}
    /\ CodesOf(call.zerados) = {"A"}
    /\ "A" \notin DOMAIN db.estoque_mestre
    /\ durable = db

(***************************************************************************)
(* C27: reposicao_loja                                                     *)
(***************************************************************************)
Pending(table, c) == { i \in 1..Len(table) : table[i].codigo = c /\ table[i].reposto = 0 }

IdsOf(table) == { table[i].id : i \in 1..Len(table) }

\* C27: reposicao_loja holds at most one row with reposto = 0 per code; a row
\* is inserted only by upload_parcial for a record with qtd_vendida > 0 whose
\* uppercased category is not in CATEGORIAS_EXCLUIDAS_REPOSICAO, and only
\* when the code has no pending row.
C27_OnePendingRowPerCode ==
    /\ [](pc = "db" => \A c \in {"A", "B"} : Cardinality(Pending(db.reposicao_loja, c)) <= 1)
    /\ [][\A i \in 1..Len(db'.reposicao_loja) :
             LET row == db'.reposicao_loja[i]
             IN  row.id \notin IdsOf(db.reposicao_loja) =>
                    /\ call'.name = "upload_parcial"
                    /\ row.reposto = 0
                    /\ row.qtd_vendida > 0
                    /\ upper(row.categoria) \notin CATEGORIAS_EXCLUIDAS_REPOSICAO
                    /\ \E k \in 1..Len(call'.records) :
                          /\ call'.records[k].codigo = row.codigo
                          /\ "qtd_vendida" \in DOMAIN call'.records[k]
                          /\ call'.records[k].qtd_vendida = row.qtd_vendida
                          /\ call'.records[k].categoria = row.categoria
                    /\ Pending(db.reposicao_loja, row.codigo) = {}]_vars

\* After the pending row of a product was marked, an upload with two sold
\* records of the product and one of an excluded category has given the
\* product one new pending row
C27_Witness ==
    /\ pc = "db"
    /\ call.name = "upload_parcial"
    /\ call.ok
    /\ call.no = 2
    /\ Len(call.records) = 2
    /\ \A k \in 1..2 : call.records[k].codigo = "A" /\ "qtd_vendida" \in DOMAIN call.records[k]
    /\ Len(db.reposicao_loja) = 2
    /\ db.reposicao_loja[1].reposto = 1
    /\ db.reposicao_loja[2].reposto = 0
    /\ db.reposicao_loja[2].criado_em = 2
    /\ db.reposicao_loja[2].id = 2

\* An upload with a sold product of an excluded category has inserted no row
C27_WitnessExcluded ==
    /\ pc = "db"
    /\ call.name = "upload_parcial"
    /\ call.ok
    /\ \E k \in 1..Len(call.records) :
          call.records[k].codigo = "B" /\ call.records[k].qtd_vendida > 0
    /\ \A i \in 1..Len(db.reposicao_loja) : db.reposicao_loja[i].codigo # "B"

====
